---- MODULE Spec2Model ----
(***************************************************************************)
(* mosaic.js: the facilitation workflow of the stake-and-mint /            *)
(* redeem-and-unstake handshake.                                           *)
(*                                                                         *)
(* Spec     : one facilitation flow of Demo/Facilitate.js (stake or        *)
(*            redeem): hash lock, nonce, declaration, anchor wait,         *)
(*            progression.                                                 *)
(* FairSpec : the same flow with the fairness the JavaScript event loop    *)
(*            gives (a pending chain call returns, a timer fires).         *)
(* SpecPPR  : one call of Facilitator.performProgressRedeem over the       *)
(*            CoGateway's getOutboxMessageStatus / progressRedeem.         *)
(* SpecGateway : one call of a write operation of EIP20Gateway or         *)
(*            EIP20CoGateway, or of a RawTx builder, from its argument     *)
(*            checks to the settling of Utils.sendTransaction.             *)
(* FairSpecGateway : the same, with every pending chain call answered.     *)
(* SpecRead : the read operations of one instance (cached getters,         *)
(*            getNonce, message-status queries), calls overlapping.        *)
(***************************************************************************)
EXTENDS Integers, Sequences, FiniteSets, TLC

(***************************************************************************)
(* Bounds of the model.                                                    *)
(***************************************************************************)
\* Block heights range over 0 .. MaxHeight + 1.
MaxHeight == 2
\* The random secret is drawn from 1 .. MaxSecret.
MaxSecret == 2
\* The sender's on-chain nonce is in 0 .. MaxNonce.
MaxNonce == 1
\* The CoGateway's bounty is in 1 .. MaxBounty.
MaxBounty == 2
\* The amount to stake or redeem is in 0 .. MaxAmount.
MaxAmount == 1
\* Hashes are values of 0 .. HashModulus - 1.
HashModulus == 11
\* Read operations called on one instance in one behaviour.
MaxCalls == 2
\* Calls of each hash lock function in one behaviour.
MaxHashCalls == 3
\* Anchor submissions of the anchoring worker in one behaviour.
MaxSubmissions == 3

Chains == {"origin", "auxiliary"}
Kinds == {"stake", "redeem"}
Heights == 0 .. (MaxHeight + 1)
Secrets == 1 .. MaxSecret

\* The element of a set that holds at most one element (an optional value).
TheOne(S) == CHOOSE x \in S : TRUE

(***************************************************************************)
(* Utils: the hash lock.                                                   *)
(***************************************************************************)
\* Web3Utils.keccak256: a fixed function without structure, here an affine
\* bijection of the hash values (not the identity).
keccak256(x) == (x * 7 + 3) % HashModulus

toHashLockSingleHash(secretString) ==
  LET unlockSecret == keccak256(secretString)
      hashLock == keccak256(secretString)
  IN [secret |-> secretString, unlockSecret |-> unlockSecret, hashLock |-> hashLock]

\* Utils.toHashLock(secretString)
toHashLock(secretString) ==
  LET unlockSecret == keccak256(secretString)
      hashLock == keccak256(unlockSecret)
  IN [secret |-> secretString, unlockSecret |-> unlockSecret, hashLock |-> hashLock]

createSecretHashLockUnhashed ==
  {[secret |-> secret, unlockSecret |-> secret, hashLock |-> keccak256(secret)] :
     secret \in 1 .. MaxSecret}

\* Utils.createSecretHashLock(): the hash locks a fresh random secret can give.
createSecretHashLock == {toHashLock(secret) : secret \in Secrets}

\* Facilitator.getHashLock(): the generator of the facade.
getHashLock == createSecretHashLock


(***************************************************************************)
(* State.                                                                  *)
(***************************************************************************)
VARIABLES
  \* ---- the chains, as the flow sees them
  anchorHeight,      \* anchorHeight[c]: height committed in the Anchor on chain c
  chainNonce,        \* the sender's nonce held by the (Co)Gateway contract
  bounty,            \* the bounty of the CoGateway contract
  stakeApproved,     \* the value token allows the Gateway the stake amount
  bountyApproved,    \* the base token allows the Gateway the bounty
  \* ---- the call of Facilitate.stake / Facilitate.redeem
  kind,              \* "stake" or "redeem"
  accountValid,      \* the staker / redeemer argument is an address
  amount,            \* the amount argument
  pc,                \* position of the flow
  generatedHashLock, \* {} or {the HashLock of this flow}
  nonce,             \* {} or {the nonce the flow read}
  calls,             \* the calls the flow made on the Facilitator, in order
  txLog,             \* the transactions submitted to the chains, in order
  declareBlock,      \* {} or {receipt.blockNumber of the declaration}
  flowResult,        \* "pending", "resolved", "rejected", "thrown"
  \* ---- waitForStateRootCommit
  waitPc,            \* "idle", "polling", "sleeping", "resolved", "rejected"
  waitAnchor,        \* {} or {the chain whose Anchor is polled}
  waitTarget,        \* {} or {the block number waited for}
  lastObserved,      \* {} or {the height the last poll returned}
  cancelRequested,   \* the caller has signalled that the wait be abandoned
  \* ---- Facilitator.performProgressRedeem over the CoGateway
  outboxStatus,      \* the outbox status the CoGateway contract holds
  pprPc,             \* "none", "idle", "query", "sending", "done"
  pprArgs,           \* {} or {the arguments of the call}
  statusQueries,     \* number of getOutboxMessageStatus contract calls
  statusRead,        \* {} or {the status the query returned}
  progressRedeemCalls, \* the argument lists coGateway.progressRedeem got
  progressRedeemResult, \* {} or {how coGateway.progressRedeem settled}
  sent,              \* the progressRedeem transactions sent to the chain
  pprResult,         \* {} or {how performProgressRedeem settled}
  \* ---- one write operation of EIP20Gateway or EIP20CoGateway
  gwPc,              \* "none", "idle", "estimating", "sending", "done", "hung"
  gwOp,              \* {} or {the operation called}
  gwArgs,            \* {} or {the arguments of the call}
  gwCallerOptions,   \* {} or {the txOptions object of the caller, as it is now}
  gwTxOptions,       \* {} or {the copy of the options sendTransaction works on}
  gwBuilt,           \* number of contract method objects built
  gwTx,              \* {} or {the contract method object built}
  gwEstimates,       \* number of estimateGas calls
  gwSent,            \* the transactions handed to tx.send, with their options
  gwApproveCalls,    \* number of calls of the token's approve
  gwResult,          \* {} or {how the call settled}
  \* ---- the read operations of one EIP20Gateway or EIP20CoGateway instance
  rdSide,            \* "none", "origin" (EIP20Gateway), "auxiliary" (EIP20CoGateway)
  rdCache,           \* the instance's cache fields: getter -> {} or {value}
  rdWrites,          \* getter -> number of assignments to its cache field
  rdStatus,          \* the chain: box -> status of the message
  rdCalls,           \* the calls made: <<op, argument, state, queried, result>>
  \* ---- one approval query of EIP20Gateway
  apPc,              \* "none", "idle", "token", "bounty", "asking", "done"
  apCall,            \* {} or {<<operation, address, amount>>}
  apCached,          \* the cache fields of the instance that are set
  apCalls,           \* callee -> number of calls made to it
  apAsked,           \* the argument lists the token's isAmountApproved got
  apResult,          \* {} or {how the query settled}
  \* ---- calls of the hash lock functions of Utils
  hlCalls,           \* the calls of toHashLock: <<secret string, result>>
  hlGenerated,       \* the results of the calls of createSecretHashLock
  \* ---- two stake flows of one staker
  tsInitialNonce,    \* the staker's nonce in the Gateway before the flows
  tsChainNonce,      \* the staker's nonce in the Gateway now
  tsPc,              \* flow -> "init", "facilitateNonce", "stakeNonce", "sent",
                     \*         "wait", "rejected"
  tsNonce,           \* flow -> {} or {the nonce Facilitate.stake read}
  tsStakeNonce,      \* flow -> {} or {the nonce of the flow's declaration}
  tsSent,            \* the stake transactions submitted: <<flow, nonce>>
  tsAccepted,        \* the flows whose declaration the Gateway accepted
  tsResult,          \* flow -> {} or {how the declaration settled}
  \* ---- the anchoring worker (AnchorStateRoot)
  awPc,              \* "none", "idle", "sleepOrigin", "blockOrigin",
                     \* "anchorOrigin", "sleepAuxiliary", "blockAuxiliary",
                     \* "anchorAuxiliary", "failed"
  awLatest,          \* chain -> number of its latest block
  awAnchorHeight,    \* anchor's chain -> the block height committed in it
  awSubmissions,     \* <<anchor's chain, block's chain, block number, outcome>>
  \* ---- one call of EIP20Gateway.setupPair
  spInput,           \* {} or {the arguments of the call}
  spPhase,           \* 0, or the step the call is in: 1 deploy Gateway,
                     \* 2 deploy CoGateway, 3 activate Gateway
  spStep,            \* "none", "idle", "estimating", "sending", "done",
                     \* "failed", "hung", "thrown"
  spTxs,             \* the transactions sent: <<method, from, parameter>>
  spGatewayAddress,  \* {} or {the address of the deployed Gateway}
  spCoGatewayAddress, \* {} or {the address of the deployed CoGateway}
  spResult           \* {} or {what the call returned or failed with}

chainVars == <<anchorHeight, chainNonce, bounty, stakeApproved, bountyApproved>>
waitVars == <<waitPc, waitAnchor, waitTarget, lastObserved>>
flowVars == <<kind, accountValid, amount, pc, generatedHashLock, nonce, calls, txLog,
              declareBlock, flowResult>>
flowAll == <<chainVars, flowVars, waitVars, cancelRequested>>
pprVars == <<outboxStatus, pprPc, pprArgs, statusQueries, statusRead,
             progressRedeemCalls, progressRedeemResult, sent, pprResult>>
gwVars == <<gwPc, gwOp, gwArgs, gwCallerOptions, gwTxOptions, gwBuilt, gwTx, gwEstimates, gwSent,
           gwApproveCalls, gwResult>>
rdVars == <<rdSide, rdCache, rdWrites, rdStatus, rdCalls>>
apVars == <<apPc, apCall, apCached, apCalls, apAsked, apResult>>
hlVars == <<hlCalls, hlGenerated>>
tsVars == <<tsInitialNonce, tsChainNonce, tsPc, tsNonce, tsStakeNonce, tsSent,
           tsAccepted, tsResult>>
awVars == <<awPc, awLatest, awAnchorHeight, awSubmissions>>
spVars == <<spInput, spPhase, spStep, spTxs, spGatewayAddress, spCoGatewayAddress,
           spResult>>
extVars == <<apVars, hlVars, tsVars, awVars, spVars>>
baseVars == <<flowAll, pprVars, gwVars, rdVars>>
exceptApVars == <<baseVars, hlVars, tsVars, awVars, spVars>>
exceptHlVars == <<baseVars, apVars, tsVars, awVars, spVars>>
exceptTsVars == <<baseVars, apVars, hlVars, awVars, spVars>>
exceptAwVars == <<baseVars, apVars, hlVars, tsVars, spVars>>
exceptSpVars == <<baseVars, apVars, hlVars, tsVars, awVars>>
vars == <<baseVars, extVars>>

(***************************************************************************)
(* Demo/Facilitate.js: one facilitation flow.                              *)
(***************************************************************************)
\* A call on the Facilitator, or a transaction submitted to a chain. hashLock
\* is a hash value; unlockSecret, nonce and value are {} when not passed.
CallRec(op, hl, us, n, val) ==
  [op |-> op, hashLock |-> hl, unlockSecret |-> us, nonce |-> n, value |-> val]

\* FacilitatorWorker: txOptions = {from, gas}; no value field.
txOptionsOrigin == [chain |-> "origin", value |-> {}]
txOptionsAuxiliary == [chain |-> "auxiliary", value |-> {}]

txOptionsAuxiliaryWithoutValue(b) == txOptionsAuxiliary

\* Object.assign({ value: bounty }, this.txOptionsAuxiliary): a value of the
\* second object replaces the bounty.
txOptionsAuxiliaryWithValue(b) ==
  [chain |-> txOptionsAuxiliary.chain,
   value |-> IF txOptionsAuxiliary.value = {} THEN {b} ELSE txOptionsAuxiliary.value]

\* The anchor handed to waitForStateRootCommit: this.auxiliaryAnchor in stake,
\* this.originAnchor in redeem.
WaitAnchorOf(k) == IF k = "stake" THEN "auxiliary" ELSE "origin"

\* shouldWait = transactionBlockNumber.gte(latestBlockHeight)
shouldWait(transactionBlockNumber, latestBlockHeight) ==
  transactionBlockNumber >= latestBlockHeight

\* getNonce with an invalid address: EIP20Gateway returns a rejected promise,
\* EIP20CoGateway throws.
getNonceInvalid(k) == IF k = "stake" THEN "rejected" ELSE "thrown"

\* stakeRawTx / redeemRawTx: !new BN(amount).gtn(0) rejects.
amountAcceptedNonNegative(a) == a >= 0

amountAccepted(a) == a > 0

\* EIP20Gateway.stake: the transaction stake(amount, ..., nonce, hashLock) sent
\* with txOptions. No approval is read here.
GatewayStake(n, hl, txOptions) ==
  CallRec("Gateway.stake", hl, {}, {n}, txOptions.value)

\* EIP20CoGateway.redeem: the transaction redeem(amount, ..., nonce, hashLock)
\* sent with txOptions.
CoGatewayRedeem(n, hl, txOptions) ==
  CallRec("CoGateway.redeem", hl, {}, {n}, txOptions.value)

Settle(result) ==
  /\ pc' = "done"
  /\ flowResult' = result

\* Facilitate.stake / Facilitate.redeem up to the nonce query in flight.
FacilitateCall ==
  /\ pc = "init"
  /\ \E hl \in getHashLock : generatedHashLock' = {hl}
  /\ IF accountValid
       THEN pc' = "nonce" /\ UNCHANGED flowResult
       ELSE Settle(getNonceInvalid(kind))
  /\ UNCHANGED <<extVars, rdVars, gwVars, pprVars, chainVars, waitVars, cancelRequested, kind, accountValid,
                 amount, nonce, calls, txLog, declareBlock>>

\* The nonce query returns: stake calls facilitator.stake, redeem reads the
\* bounty first.
NonceReturn ==
  /\ pc = "nonce"
  /\ \/ /\ Settle("rejected")
        /\ UNCHANGED <<nonce, calls>>
     \/ /\ nonce' = {chainNonce}
        /\ UNCHANGED flowResult
        /\ IF kind = "stake"
             THEN /\ calls' = Append(calls,
                       CallRec("Facilitator.stake",
                               TheOne(generatedHashLock).hashLock, {}, {},
                               txOptionsOrigin.value))
                  /\ pc' = "declare"
             ELSE /\ pc' = "bounty"
                  /\ UNCHANGED calls
  /\ UNCHANGED <<extVars, rdVars, gwVars, pprVars, chainVars, waitVars, cancelRequested, kind, accountValid,
                 amount, generatedHashLock, txLog, declareBlock>>

\* coGateway.getBounty() returns: redeem calls facilitator.redeem with the
\* bounty as the transaction value.
BountyReturn ==
  /\ pc = "bounty"
  /\ \/ /\ Settle("rejected")
        /\ UNCHANGED calls
     \/ /\ calls' = Append(calls,
             CallRec("Facilitator.redeem",
                     TheOne(generatedHashLock).hashLock, {}, {},
                     txOptionsAuxiliaryWithValue(bounty).value))
        /\ pc' = "declare"
        /\ UNCHANGED flowResult
  /\ UNCHANGED <<extVars, rdVars, gwVars, pprVars, chainVars, waitVars, cancelRequested, kind, accountValid,
                 amount, generatedHashLock, nonce, txLog, declareBlock>>

\* Facilitator.stake: both approvals are read; the declaration goes to the
\* Gateway only when both hold.
FacilitatorStakeApproved == stakeApproved /\ bountyApproved

\* Facilitator.stake / Facilitator.redeem: resolves the nonce and submits the
\* declaration through the Gateway / CoGateway.
FacilitatorDeclare ==
  /\ pc = "declare"
  /\ LET call == calls[Len(calls)]
         txOptions == [chain |-> IF kind = "stake" THEN "origin" ELSE "auxiliary",
                       value |-> call.value]
     IN IF kind = "stake"
          THEN IF FacilitatorStakeApproved /\ amountAccepted(amount)
                 THEN /\ txLog' = Append(txLog,
                            GatewayStake(chainNonce, call.hashLock, txOptions))
                      /\ pc' = "declareSent"
                      /\ UNCHANGED flowResult
                 ELSE /\ Settle("rejected")
                      /\ UNCHANGED txLog
          ELSE IF amountAccepted(amount)
                 THEN /\ txLog' = Append(txLog,
                            CoGatewayRedeem(chainNonce, call.hashLock, txOptions))
                      /\ pc' = "declareSent"
                      /\ UNCHANGED flowResult
                 ELSE /\ Settle("rejected")
                      /\ UNCHANGED txLog
  /\ UNCHANGED <<extVars, rdVars, gwVars, pprVars, chainVars, waitVars, cancelRequested, kind, accountValid,
                 amount, generatedHashLock, nonce, calls, declareBlock>>

\* The declaration's transaction is mined (receipt) or fails. On the receipt
\* waitForStateRootCommit(anchor, receipt.blockNumber) starts its first poll.
DeclareReturn ==
  /\ pc = "declareSent"
  /\ \/ /\ Settle("rejected")
        /\ UNCHANGED <<declareBlock, waitVars>>
     \/ \E blockNumber \in 1 .. MaxHeight :
          /\ declareBlock' = {blockNumber}
          /\ pc' = "wait"
          /\ waitPc' = "polling"
          /\ waitAnchor' = {WaitAnchorOf(kind)}
          /\ waitTarget' = {blockNumber}
          /\ UNCHANGED <<flowResult, lastObserved>>
  /\ UNCHANGED <<extVars, rdVars, gwVars, pprVars, chainVars, cancelRequested, kind, accountValid, amount,
                 generatedHashLock, nonce, calls, txLog>>

PollReturnLosingFailure ==
  /\ pc = "wait"
  /\ waitPc = "polling"
  /\ \/ /\ waitPc' = "rejected"
        /\ UNCHANGED <<pc, flowResult, lastObserved>>
     \/ LET latestBlockHeight == anchorHeight[TheOne(waitAnchor)]
        IN /\ lastObserved' = {latestBlockHeight}
           /\ waitPc' = IF shouldWait(TheOne(waitTarget), latestBlockHeight)
                          THEN "sleeping" ELSE "resolved"
           /\ UNCHANGED <<pc, flowResult>>
  /\ UNCHANGED <<extVars, rdVars, gwVars, pprVars, chainVars, cancelRequested, kind, accountValid, amount,
                 generatedHashLock, nonce, calls, txLog, declareBlock,
                 waitAnchor, waitTarget>>

\* anchor.getLatestStateRootBlockHeight() returns or fails. A failure at any
\* depth of the recursion rejects the whole wait.
PollReturn ==
  /\ pc = "wait"
  /\ waitPc = "polling"
  /\ \/ /\ waitPc' = "rejected"
        /\ Settle("rejected")
        /\ UNCHANGED lastObserved
     \/ LET latestBlockHeight == anchorHeight[TheOne(waitAnchor)]
        IN /\ lastObserved' = {latestBlockHeight}
           /\ waitPc' = IF shouldWait(TheOne(waitTarget), latestBlockHeight)
                          THEN "sleeping" ELSE "resolved"
           /\ UNCHANGED <<pc, flowResult>>
  /\ UNCHANGED <<extVars, rdVars, gwVars, pprVars, chainVars, cancelRequested, kind, accountValid, amount,
                 generatedHashLock, nonce, calls, txLog, declareBlock,
                 waitAnchor, waitTarget>>

\* sleep(TIME_DURATION) ends: the wait calls itself and polls again.
SleepWake ==
  /\ pc = "wait"
  /\ waitPc = "sleeping"
  /\ waitPc' = "polling"
  /\ UNCHANGED <<extVars, rdVars, gwVars, pprVars, chainVars, flowVars, cancelRequested, waitAnchor, waitTarget,
                 lastObserved>>

ProgressEnabledNoWait == pc = "wait"

\* .then(() => this.facilitator.progressStake(...)) on the wait's promise.
ProgressEnabled == pc = "wait" /\ waitPc = "resolved"

\* The progression call of the flow.
ProgressCall ==
  /\ ProgressEnabled
  /\ calls' = Append(calls,
       CallRec(IF kind = "stake" THEN "Facilitator.progressStake"
                                 ELSE "Facilitator.progressRedeem",
               TheOne(generatedHashLock).hashLock,
               {TheOne(generatedHashLock).unlockSecret},
               nonce, {}))
  /\ pc' = "progress"
  /\ UNCHANGED <<extVars, rdVars, gwVars, pprVars, chainVars, waitVars, cancelRequested, kind, accountValid,
                 amount, generatedHashLock, nonce, txLog, declareBlock,
                 flowResult>>

\* The progression settles; its result is the result of the flow.
ProgressReturn ==
  /\ pc = "progress"
  /\ \E result \in {"resolved", "rejected"} : Settle(result)
  /\ UNCHANGED <<extVars, rdVars, gwVars, pprVars, chainVars, waitVars, cancelRequested, kind, accountValid,
                 amount, generatedHashLock, nonce, calls, txLog, declareBlock>>

(***************************************************************************)
(* The environment of the flow.                                            *)
(***************************************************************************)
\* A state root is committed in the Anchor on chain c: the committed height
\* grows strictly.
AnchorCommit(c) ==
  /\ \E h \in Heights :
       /\ h > anchorHeight[c]
       /\ anchorHeight' = [anchorHeight EXCEPT ![c] = h]
  /\ UNCHANGED <<extVars, rdVars, gwVars, pprVars, chainNonce, bounty, stakeApproved, bountyApproved, flowVars,
                 waitVars, cancelRequested>>

\* The caller signals that the running wait be abandoned.
Cancel ==
  /\ waitPc \in {"polling", "sleeping"}
  /\ ~cancelRequested
  /\ cancelRequested' = TRUE
  /\ UNCHANGED <<extVars, rdVars, gwVars, pprVars, chainVars, flowVars, waitVars>>

(***************************************************************************)
(* Facilitator.performProgressRedeem over EIP20CoGateway.                  *)
(***************************************************************************)
\* Message.messageStatus()
MessageStatus ==
  {"Undeclared", "Declared", "Progressed", "DeclaredRevocation", "Revoked"}

\* A value that is not a string (typeof x !== 'string').
Undefined == "undefined"
MessageHashes == {"0x..01", "0x..0222"}
UnlockSecrets == {"0x..02", "0x..03"}
\* txOptions: missing, with a from that is no address, with a valid from and
\* no gas, with a valid from and a gas.
TxOptionsValues ==
  {[defined |-> FALSE, fromValid |-> FALSE, gas |-> FALSE],
   [defined |-> TRUE, fromValid |-> FALSE, gas |-> TRUE],
   [defined |-> TRUE, fromValid |-> TRUE, gas |-> FALSE],
   [defined |-> TRUE, fromValid |-> TRUE, gas |-> TRUE]}

isString(x) == x # Undefined

Args(messageHash, unlockSecret, txOptions) ==
  [messageHash |-> messageHash, unlockSecret |-> unlockSecret,
   txOptions |-> txOptions]

\* The transitions of a message's status in the MessageBus of one side.
StatusSuccessors(status) ==
  CASE status = "Undeclared" -> {"Declared"}
    [] status = "Declared" -> {"Progressed", "DeclaredRevocation"}
    [] status = "DeclaredRevocation" -> {"Revoked"}
    [] OTHER -> {}

\* performProgressRedeem validates its arguments before any I/O.
pprInvalidArgument(a) ==
  IF ~isString(a.messageHash) THEN {"Invalid message hash"}
  ELSE IF ~isString(a.unlockSecret) THEN {"Invalid unlock secret"}
  ELSE IF ~a.txOptions.defined THEN {"Invalid transaction option"}
  ELSE {}

\* EIP20CoGateway.getOutboxMessageStatus: typeof messageHash !== 'string'
\* rejects without a contract call.
getOutboxMessageStatusRejects(messageHash) == ~isString(messageHash)

\* EIP20CoGateway.progressRedeem and progressRedeemRawTx: the checks made
\* before the transaction is built and sent; {} when all pass.
progressRedeemRejects(a) ==
  IF ~a.txOptions.defined THEN {"Invalid transaction options"}
  ELSE IF ~a.txOptions.fromValid THEN {"Invalid from address"}
  ELSE IF ~isString(a.messageHash) THEN {"Invalid message hash"}
  ELSE IF ~isString(a.unlockSecret) THEN {"Invalid unlock secret"}
  ELSE {}

MayProgressUnlessRevoked(status) == status \notin {"DeclaredRevocation", "Revoked"}

MayProgressWhenKnown(status) == status # "Undeclared"

\* The policy of the facade: a message is progressed only when its status
\* is Declared.
MayProgress(status) == status = "Declared"

\* What performProgressRedeem settles with when it does not progress.
NotProgressedResults(status) ==
  IF status = "Progressed"
    THEN {"true", "MessageNotProgressable"}
    ELSE {"MessageNotProgressable"}

\* The transaction progressRedeem hands to tx.send.
ProgressRedeemTx(a) ==
  [messageHash |-> a.messageHash, unlockSecret |-> a.unlockSecret]

\* The MessageBus progresses an outbox message only from Declared: a
\* progression of a message in any other status reverts.
ChainAcceptsProgress(status) == status = "Declared"

\* facilitator.performProgressRedeem(messageHash, unlockSecret, txOptions) up
\* to the status query in flight.
PerformProgressRedeem(messageHash, unlockSecret, txOptions) ==
  /\ pprPc = "idle"
  /\ LET a == Args(messageHash, unlockSecret, txOptions)
     IN /\ pprArgs' = {a}
        /\ IF pprInvalidArgument(a) # {}
             THEN /\ pprResult' = pprInvalidArgument(a)
                  /\ pprPc' = "done"
                  /\ UNCHANGED statusQueries
             ELSE IF getOutboxMessageStatusRejects(a.messageHash)
               THEN /\ pprResult' = {"Invalid message hash"}
                    /\ pprPc' = "done"
                    /\ UNCHANGED statusQueries
               ELSE /\ statusQueries' = statusQueries + 1
                    /\ pprPc' = "query"
                    /\ UNCHANGED pprResult
  /\ UNCHANGED <<extVars, rdVars, gwVars, flowAll, outboxStatus, statusRead, progressRedeemCalls,
                 progressRedeemResult, sent>>

\* The status query returns (or fails); on Declared the facade calls
\* coGateway.progressRedeem with its own arguments and returns that promise.
StatusReturn ==
  /\ pprPc = "query"
  /\ LET a == TheOne(pprArgs)
     IN \/ /\ pprResult' = {"ChainError"}
           /\ pprPc' = "done"
           /\ UNCHANGED <<statusRead, progressRedeemCalls, progressRedeemResult,
                          sent>>
        \/ /\ statusRead' = {outboxStatus}
           /\ IF MayProgress(outboxStatus)
                THEN /\ progressRedeemCalls' = Append(progressRedeemCalls, a)
                     /\ IF progressRedeemRejects(a) # {}
                          THEN /\ progressRedeemResult' = progressRedeemRejects(a)
                               /\ pprResult' = progressRedeemResult'
                               /\ pprPc' = "done"
                               /\ UNCHANGED sent
                          ELSE /\ IF a.txOptions.gas
                                    THEN /\ sent' = Append(sent, ProgressRedeemTx(a))
                                         /\ pprPc' = "sending"
                                    ELSE /\ pprPc' = "estimating"
                                         /\ UNCHANGED sent
                               /\ UNCHANGED <<progressRedeemResult, pprResult>>
                ELSE /\ \E r \in NotProgressedResults(outboxStatus) :
                          pprResult' = {r}
                     /\ pprPc' = "done"
                     /\ UNCHANGED <<progressRedeemCalls, progressRedeemResult,
                                    sent>>
  /\ UNCHANGED <<extVars, rdVars, gwVars, flowAll, outboxStatus, pprArgs, statusQueries>>

\* Utils.sendTransaction without gas in the options: tx.estimateGas answers
\* and the transaction is sent, or it fails (as it does for a transaction
\* that would revert) and the executor stops without settling the promise.
ProgressEstimateGasReturn ==
  /\ pprPc = "estimating"
  /\ \/ /\ ChainAcceptsProgress(outboxStatus)
        /\ sent' = Append(sent, ProgressRedeemTx(TheOne(pprArgs)))
        /\ pprPc' = "sending"
     \/ /\ pprPc' = "hung"
        /\ UNCHANGED sent
  /\ UNCHANGED <<extVars, rdVars, gwVars, flowAll, outboxStatus, pprArgs, statusQueries,
                 statusRead, progressRedeemCalls, progressRedeemResult, pprResult>>

\* Utils.sendTransaction settles: with the receipt when the transaction is
\* mined and the message progressed, else with the chain's error.
SendReturn ==
  /\ pprPc = "sending"
  /\ \/ /\ ChainAcceptsProgress(outboxStatus)
        /\ progressRedeemResult' = {"receipt"}
        /\ outboxStatus' = "Progressed"
     \/ /\ progressRedeemResult' = {"TransactionReverted"}
        /\ UNCHANGED outboxStatus
  /\ pprResult' = progressRedeemResult'
  /\ pprPc' = "done"
  /\ UNCHANGED <<extVars, rdVars, gwVars, flowAll, pprArgs, statusQueries, statusRead,
                 progressRedeemCalls, sent>>

\* The message's outbox status moves on in the contract.
OutboxTransition ==
  /\ pprPc # "none"
  /\ \E status \in StatusSuccessors(outboxStatus) : outboxStatus' = status
  /\ UNCHANGED <<extVars, rdVars, gwVars, flowAll, pprPc, pprArgs, statusQueries, statusRead,
                 progressRedeemCalls, progressRedeemResult, sent, pprResult>>

(***************************************************************************)
(* The write operations of EIP20Gateway and EIP20CoGateway, their RawTx     *)
(* builders, and Utils.sendTransaction.                                    *)
(***************************************************************************)
\* txOptions of a write operation, <<defined, from is an address, gas>>:
\* missing, with a from that is no address, valid without gas, valid with gas.
GwTxOptionsValues ==
  {<<FALSE, FALSE, {}>>, <<TRUE, FALSE, {"7500000"}>>,
   <<TRUE, TRUE, {}>>, <<TRUE, TRUE, {"7500000"}>>}

txOptionsDefined(txOptions) == txOptions[1]
txOptionsFromValid(txOptions) == txOptions[2]
txOptionsGas(txOptions) == txOptions[3]

Amounts == (0 - 1) .. MaxAmount

\* The arguments of stake, in the order of its parameters.
StakeArgs(a, beneficiaryValid, gasPriceDefined, gasLimitDefined, n, hl, txOptions) ==
  <<a, beneficiaryValid, gasPriceDefined, gasLimitDefined, n, hl, txOptions>>

argAmount(args) == args[1]
argBeneficiaryValid(args) == args[2]
argGasPriceDefined(args) == args[3]
argGasLimitDefined(args) == args[4]
argNonce(args) == args[5]
argHashLock(args) == args[6]
argTxOptions(args) == args[7]

\* EIP20Gateway.stake: the checks of txOptions; {} when they pass.
stakeRejects(args) ==
  IF ~txOptionsDefined(argTxOptions(args)) THEN {"Invalid transaction options"}
  ELSE IF ~txOptionsFromValid(argTxOptions(args)) THEN {"Invalid facilitator address"}
  ELSE {}

\* EIP20Gateway.stakeRawTx: the checks of the arguments, in order; {} when
\* they pass.
stakeRawTxRejects(args) ==
  IF ~amountAccepted(argAmount(args)) THEN {"Stake amount must be greater than zero"}
  ELSE IF ~argBeneficiaryValid(args) THEN {"Invalid beneficiary address"}
  ELSE IF ~argGasPriceDefined(args) THEN {"Invalid gas price"}
  ELSE IF ~argGasLimitDefined(args) THEN {"Invalid gas limit"}
  ELSE IF ~isString(argNonce(args)) THEN {"Invalid nonce"}
  ELSE IF ~isString(argHashLock(args)) THEN {"Invalid hash lock"}
  ELSE {}

\* EIP20CoGateway.redeem: the checks of txOptions; {} when they pass.
redeemRejects(args) ==
  IF ~txOptionsDefined(argTxOptions(args)) THEN {"Invalid transaction options"}
  ELSE IF ~txOptionsFromValid(argTxOptions(args)) THEN {"Invalid redeemer address"}
  ELSE {}

\* EIP20CoGateway.redeemRawTx: the checks of the arguments, in order; {} when
\* they pass. Here gasPrice and gasLimit pass when they are strings.
redeemRawTxRejects(args) ==
  IF ~amountAccepted(argAmount(args)) THEN {"Redeem amount must be greater than zero"}
  ELSE IF ~argBeneficiaryValid(args) THEN {"Invalid beneficiary address"}
  ELSE IF ~argGasPriceDefined(args) THEN {"Invalid gas price"}
  ELSE IF ~argGasLimitDefined(args) THEN {"Invalid gas limit"}
  ELSE IF ~isString(argNonce(args)) THEN {"Invalid nonce"}
  ELSE IF ~isString(argHashLock(args)) THEN {"Invalid hash lock"}
  ELSE {}

\* The arguments of progressStake, progressRedeem, progressMint and
\* progressUnstake, in the order of their parameters.
ProgressArgs(messageHash, unlockSecret, txOptions) ==
  <<messageHash, unlockSecret, txOptions>>

argMessageHash(args) == args[1]
argUnlockSecret(args) == args[2]
argProgressTxOptions(args) == args[3]

progressRejectsMissingOnly(args) ==
  IF ~txOptionsDefined(argProgressTxOptions(args)) THEN {"Invalid transaction options"}
  ELSE {}

\* progressStake, progressRedeem, progressMint, progressUnstake: the checks of
\* txOptions; {} when they pass.
progressRejects(args) ==
  IF ~txOptionsDefined(argProgressTxOptions(args)) THEN {"Invalid transaction options"}
  ELSE IF ~txOptionsFromValid(argProgressTxOptions(args)) THEN {"Invalid from address"}
  ELSE {}

\* progress*RawTx: the checks of the arguments, in order; {} when they pass.
progressRawTxRejects(args) ==
  IF ~isString(argMessageHash(args)) THEN {"Invalid message hash"}
  ELSE IF ~isString(argUnlockSecret(args)) THEN {"Invalid unlock secret"}
  ELSE {}

\* this.contract.methods.<method>(...arguments): the method object, built
\* from the arguments of the RawTx builder.
DeclareTx(method, args) == <<method, SubSeq(args, 1, 6)>>
ProgressTxSwapped(method, args) ==
  <<method, <<argUnlockSecret(args), argMessageHash(args)>>>>
ProgressTx(method, args) ==
  <<method, <<argMessageHash(args), argUnlockSecret(args)>>>>

\* The transaction handed to tx.send: <<method object, gas of the options>>.
SentTx(tx, gas) == <<tx, gas>>

\* Promise.reject(err) before anything is built.
Reject(err) ==
  /\ gwResult' = err
  /\ gwPc' = "done"
  /\ UNCHANGED <<gwTxOptions, gwBuilt, gwTx, gwEstimates, gwSent, gwApproveCalls>>

\* The RawTx builder passed its checks and built the method object.
RawTxBuilt(tx) ==
  /\ gwBuilt' = gwBuilt + 1
  /\ gwTx' = {tx}

\* The options with their gas set.
withGas(txOptions, gas) == <<txOptions[1], txOptions[2], gas>>

\* Utils.sendTransaction(tx, txOptions) up to its first pending chain call:
\* the options are copied; estimateGas when the copy carries no gas, else send.
sendTransaction(tx, txOptions) ==
  /\ UNCHANGED gwResult
  /\ gwTxOptions' = {txOptions}
  /\ IF txOptionsGas(txOptions) = {}
       THEN /\ gwEstimates' = gwEstimates + 1
            /\ gwPc' = "estimating"
            /\ UNCHANGED gwSent
       ELSE /\ gwSent' = Append(gwSent, SentTx(tx, txOptionsGas(txOptions)))
            /\ gwPc' = "sending"
            /\ UNCHANGED gwEstimates

\* A write operation: the checks of txOptions, then
\* this.<op>RawTx(...).then((tx) => Utils.sendTransaction(tx, txOptions)).
WriteOperation(op, args, txOptions, optionsRejects, rawTxRejects, tx) ==
  /\ gwPc = "idle"
  /\ gwOp' = {op}
  /\ gwArgs' = {args}
  /\ gwCallerOptions' = {txOptions}
  /\ IF optionsRejects # {} THEN Reject(optionsRejects)
     ELSE IF rawTxRejects # {} THEN Reject(rawTxRejects)
     ELSE RawTxBuilt(tx) /\ sendTransaction(tx, txOptions) /\ UNCHANGED gwApproveCalls
  /\ UNCHANGED <<extVars, rdVars, flowAll, pprVars>>

\* A RawTx builder called by itself: it resolves to the method object.
RawTxOperation(op, args, rawTxRejects, tx) ==
  /\ gwPc = "idle"
  /\ gwOp' = {op}
  /\ gwArgs' = {args}
  /\ IF rawTxRejects # {}
       THEN Reject(rawTxRejects)
       ELSE /\ RawTxBuilt(tx)
            /\ gwResult' = {"raw transaction"}
            /\ gwPc' = "done"
            /\ UNCHANGED <<gwTxOptions, gwEstimates, gwSent, gwApproveCalls>>
  /\ UNCHANGED <<gwCallerOptions, extVars, rdVars, flowAll, pprVars>>

\* gateway.stake(amount, beneficiary, gasPrice, gasLimit, nonce, hashLock,
\* txOptions) up to the first pending chain call. The approvals held by the
\* tokens are not read.
GatewayStakeCall(a) ==
  WriteOperation("stake", a, argTxOptions(a), stakeRejects(a),
                 stakeRawTxRejects(a), DeclareTx("stake", a))

\* gateway.stakeRawTx(amount, beneficiary, gasPrice, gasLimit, nonce, hashLock)
StakeRawTxCall(a) ==
  RawTxOperation("stakeRawTx", a, stakeRawTxRejects(a), DeclareTx("stake", a))

\* coGateway.redeem(amount, beneficiary, gasPrice, gasLimit, nonce, hashLock,
\* txOptions) up to the first pending chain call.
CoGatewayRedeemCall(a) ==
  WriteOperation("redeem", a, argTxOptions(a), redeemRejects(a),
                 redeemRawTxRejects(a), DeclareTx("redeem", a))

\* coGateway.redeemRawTx(amount, beneficiary, gasPrice, gasLimit, nonce,
\* hashLock)
RedeemRawTxCall(a) ==
  RawTxOperation("redeemRawTx", a, redeemRawTxRejects(a), DeclareTx("redeem", a))

\* The progress operations and the contract method each one builds.
ProgressMethods ==
  {"progressStake", "progressRedeem", "progressMint", "progressUnstake"}

\* progressStake / progressRedeem / progressMint / progressUnstake
\* (messageHash, unlockSecret, txOptions) up to the first pending chain call.
ProgressOperationCall(method, a) ==
  WriteOperation(method, a, argProgressTxOptions(a), progressRejects(a),
                 progressRawTxRejects(a), ProgressTx(method, a))

\* The RawTx builder of each progress operation.
RawTxOf(method) ==
  CASE method = "progressStake" -> "progressStakeRawTx"
    [] method = "progressRedeem" -> "progressRedeemRawTx"
    [] method = "progressMint" -> "progressMintRawTx"
    [] method = "progressUnstake" -> "progressUnstakeRawTx"

\* progress*RawTx(messageHash, unlockSecret)
ProgressRawTxCall(method, a) ==
  RawTxOperation(RawTxOf(method), a, progressRawTxRejects(a),
                 ProgressTx(method, a))

\* tx.estimateGas(txOptions) returns the gas, and the transaction is sent;
\* or it throws inside the promise's executor, and the promise of
\* sendTransaction is left pending.
EstimateGasReturnInPlace ==
  /\ gwPc = "estimating"
  /\ \/ /\ gwCallerOptions' = {withGas(TheOne(gwCallerOptions), {"estimated"})}
        /\ gwTxOptions' = gwCallerOptions'
        /\ gwSent' = Append(gwSent, SentTx(TheOne(gwTx), {"estimated"}))
        /\ gwPc' = "sending"
     \/ /\ gwPc' = "hung"
        /\ UNCHANGED <<gwCallerOptions, gwTxOptions, gwSent>>
  /\ UNCHANGED <<extVars, rdVars, flowAll, pprVars, gwOp, gwArgs, gwBuilt, gwTx,
                 gwEstimates, gwApproveCalls, gwResult>>

\* tx.estimateGas(txOptions) resolves, the estimate is stored in the copy and
\* the transaction is sent with the copy; or it fails and nothing follows.
EstimateGasReturn ==
  /\ gwPc = "estimating"
  /\ \/ /\ gwTxOptions' = {withGas(TheOne(gwTxOptions), {"estimated"})}
        /\ gwSent' = Append(gwSent, SentTx(TheOne(gwTx),
                                           txOptionsGas(TheOne(gwTxOptions'))))
        /\ gwPc' = "sending"
     \/ /\ gwPc' = "hung"
        /\ UNCHANGED <<gwTxOptions, gwSent>>
  /\ UNCHANGED <<extVars, rdVars, flowAll, pprVars, gwOp, gwArgs, gwCallerOptions,
                 gwBuilt, gwTx, gwEstimates, gwApproveCalls, gwResult>>

GatewaySendReturnRetrying ==
  /\ gwPc = "sending"
  /\ \/ /\ gwResult' = {"receipt"}
        /\ gwPc' = "done"
        /\ UNCHANGED gwSent
     \/ /\ Len(gwSent) < 2
        /\ gwSent' = Append(gwSent, gwSent[Len(gwSent)])
        /\ UNCHANGED <<gwResult, gwPc>>
     \/ /\ Len(gwSent) >= 2
        /\ gwResult' = {"TransactionReverted"}
        /\ gwPc' = "done"
        /\ UNCHANGED gwSent
  /\ UNCHANGED <<extVars, rdVars, flowAll, pprVars, gwOp, gwArgs, gwCallerOptions, gwTxOptions, gwBuilt, gwTx, gwEstimates,
                 gwApproveCalls>>

\* tx.send(txOptions) emits 'receipt' or 'error'.
GatewaySendReturn ==
  /\ gwPc = "sending"
  /\ \E r \in {"receipt", "TransactionReverted"} : gwResult' = {r}
  /\ gwPc' = "done"
  /\ UNCHANGED <<extVars, rdVars, flowAll, pprVars, gwOp, gwArgs, gwCallerOptions, gwTxOptions, gwBuilt, gwTx, gwEstimates,
                 gwSent, gwApproveCalls>>

\* The arguments of proveGateway, confirmStakeIntent, confirmRedeemIntent and
\* activateGateway: whether the arguments pass the checks of the RawTx
\* builder, and txOptions.
OtherArgs(rawTxArgumentsValid, txOptions) == <<rawTxArgumentsValid, txOptions>>

argRawTxArgumentsValid(args) == args[1]
argOtherTxOptions(args) == args[2]

OtherWriteOps ==
  {"proveGateway", "confirmStakeIntent", "confirmRedeemIntent", "activateGateway"}

\* The checks of txOptions in these operations; {} when they pass.
otherRejects(args) ==
  IF ~txOptionsDefined(argOtherTxOptions(args)) THEN {"Invalid transaction options"}
  ELSE IF ~txOptionsFromValid(argOtherTxOptions(args)) THEN {"Invalid from address"}
  ELSE {}

\* The checks of their RawTx builders; {} when they pass.
otherRawTxRejects(args) ==
  IF ~argRawTxArgumentsValid(args) THEN {"Invalid argument"} ELSE {}

\* proveGateway / confirmStakeIntent / confirmRedeemIntent / activateGateway
\* (..., txOptions) up to the first pending chain call.
OtherWriteOperationCall(op, a) ==
  WriteOperation(op, a, argOtherTxOptions(a), otherRejects(a),
                 otherRawTxRejects(a), <<op, <<>>>>)

ApproveOps == {"approveStakeAmount", "approveBountyAmount", "approveRedeemAmount"}

\* The arguments of the approve operations: whether amount is a string, and
\* txOptions.
ApproveArgs(amountIsString, txOptions) == <<amountIsString, txOptions>>

\* approveStakeAmount / approveRedeemAmount: the check of amount, made after
\* those of txOptions; approveBountyAmount takes no amount.
approveAmountRejects(op, args) ==
  IF op # "approveBountyAmount" /\ ~args[1] THEN {"Invalid amount"} ELSE {}

\* approveStakeAmount(amount, txOptions), approveBountyAmount(txOptions),
\* approveRedeemAmount(amount, txOptions): the checks, then the token's
\* approve(this.address, amount, txOptions).
ApproveCall(op, a) ==
  /\ gwPc = "idle"
  /\ gwOp' = {op}
  /\ gwArgs' = {a}
  /\ IF otherRejects(a) # {} THEN Reject(otherRejects(a))
     ELSE IF approveAmountRejects(op, a) # {} THEN Reject(approveAmountRejects(op, a))
     ELSE /\ gwApproveCalls' = gwApproveCalls + 1
          /\ gwPc' = "approving"
          /\ UNCHANGED <<gwTxOptions, gwBuilt, gwTx, gwEstimates, gwSent, gwResult>>
  /\ UNCHANGED <<gwCallerOptions, extVars, rdVars, flowAll, pprVars>>

\* The token's approve settles.
TokenApproveReturn ==
  /\ gwPc = "approving"
  /\ \E r \in {"receipt", "TransactionReverted"} : gwResult' = {r}
  /\ gwPc' = "done"
  /\ UNCHANGED <<extVars, rdVars, flowAll, pprVars, gwOp, gwArgs, gwCallerOptions, gwTxOptions, gwBuilt, gwTx, gwEstimates,
                 gwSent, gwApproveCalls>>

(***************************************************************************)
(* The read operations of one EIP20Gateway or EIP20CoGateway instance.     *)
(***************************************************************************)
\* The read-through getters of each class, one cache field each.
Getters(side) ==
  IF side = "origin"
    THEN {"getBounty", "getBaseToken", "getValueToken",
          "getStateRootProviderAddress"}
    ELSE {"getBounty", "getUtilityToken", "getStateRootProviderAddress"}
AllGetters == Getters("origin") \cup Getters("auxiliary")
StatusOps == {"getInboxMessageStatus", "getOutboxMessageStatus"}
Boxes == {"inbox", "outbox"}
BoxOf(op) == IF op = "getInboxMessageStatus" THEN "inbox" ELSE "outbox"

\* What the contract answers to each getter: a value fixed at deployment.
ChainValue(getter) ==
  CASE getter = "getBounty" -> "100"
    [] getter = "getBaseToken" -> "0x..b"
    [] getter = "getValueToken" -> "0x..v"
    [] getter = "getUtilityToken" -> "0x..u"
    [] getter = "getStateRootProviderAddress" -> "0x..a"
StaleValue(getter) == "0x..0"

\* The message hashes the status queries are called with: no string, a
\* 32-byte hex string, a string that is no 32-byte hex identifier.
WellFormedHash == "0x..01"
MalformedHash == "0x1234"
HashArguments == {Undefined, WellFormedHash, MalformedHash}
AccountArguments == {"0x..account", "0x1234"}
isAddress(x) == x = "0x..account"

\* One call: <<op, argument, state, queried, result>>; state is "pending",
\* "resolved", "rejected", or "thrown" for an exception out of the call.
Call(op, arg, state, queried, result) == <<op, arg, state, queried, result>>
callOp(c) == c[1]
callArg(c) == c[2]
callState(c) == c[3]
callQueried(c) == c[4]
callResult(c) == c[5]

SideKind(side) == IF side = "origin" THEN "stake" ELSE "redeem"

StatusAnswerInitial(box) == "Undeclared"

\* The status the chain answers a status query with.
StatusAnswer(box) == rdStatus[box]

CachedValueStale(getter, returned) == StaleValue(getter)

\* What a getter assigns to its cache field: the value the chain returned.
CachedValue(getter, returned) == returned

GetterCallUncached(getter) == Call(getter, "", "pending", TRUE, "")

\* A getter: the cache field when it is set, else the contract call.
GetterCall(getter) ==
  IF rdCache[getter] # {}
    THEN Call(getter, "", "resolved", FALSE, TheOne(rdCache[getter]))
    ELSE Call(getter, "", "pending", TRUE, "")

\* getNonce(accountAddress): an invalid address is rejected by EIP20Gateway
\* and thrown by EIP20CoGateway; no contract call in either.
GetNonceCall(accountAddress) ==
  IF ~isAddress(accountAddress)
    THEN Call("getNonce", accountAddress, getNonceInvalid(SideKind(rdSide)),
              FALSE, "Invalid account address")
    ELSE Call("getNonce", accountAddress, "pending", TRUE, "")

\* getInboxMessageStatus / getOutboxMessageStatus(messageHash): rejected
\* when messageHash is no string, else the contract call.
StatusCall(op, messageHash) ==
  IF ~isString(messageHash)
    THEN Call(op, messageHash, "rejected", FALSE, "Invalid message hash")
    ELSE Call(op, messageHash, "pending", TRUE, "")

\* A read operation is called, up to its contract call in flight.
ReadCall(c) ==
  /\ rdSide # "none"
  /\ Len(rdCalls) < MaxCalls
  /\ rdCalls' = Append(rdCalls, c)
  /\ UNCHANGED <<rdSide, rdCache, rdWrites, rdStatus, flowAll, pprVars, gwVars, extVars>>

\* The contract call of call i returns: a getter assigns its cache field
\* and resolves to the value; the others resolve to the chain's answer.
ReadReturn(i) ==
  /\ callState(rdCalls[i]) = "pending"
  /\ LET op == callOp(rdCalls[i])
         answer == IF op \in AllGetters THEN ChainValue(op)
                   ELSE IF op \in StatusOps THEN StatusAnswer(BoxOf(op))
                   ELSE "nonce"
     IN /\ rdCalls' = [rdCalls EXCEPT
                         ![i] = Call(op, callArg(rdCalls[i]), "resolved", TRUE,
                                     answer)]
        /\ IF op \in AllGetters
             THEN /\ rdCache' = [rdCache EXCEPT ![op] = {CachedValue(op, answer)}]
                  /\ rdWrites' = [rdWrites EXCEPT ![op] = @ + 1]
             ELSE UNCHANGED <<rdCache, rdWrites>>
  /\ UNCHANGED <<rdSide, rdStatus, flowAll, pprVars, gwVars, extVars>>

\* The contract call of call i fails: the call rejects with the client's
\* error, no field is assigned.
ReadFail(i) ==
  /\ callState(rdCalls[i]) = "pending"
  /\ rdCalls' = [rdCalls EXCEPT
                   ![i] = Call(callOp(rdCalls[i]), callArg(rdCalls[i]),
                               "rejected", TRUE, "ChainError")]
  /\ UNCHANGED <<rdSide, rdCache, rdWrites, rdStatus, flowAll, pprVars, gwVars, extVars>>

\* The message's status moves on in the contract, in the one box of this
\* contract that holds the message.
MessageStatusChange(box) ==
  /\ rdSide # "none"
  /\ \A other \in Boxes \ {box} : rdStatus[other] = "Undeclared"
  /\ \E status \in StatusSuccessors(rdStatus[box]) :
       rdStatus' = [rdStatus EXCEPT ![box] = status]
  /\ UNCHANGED <<rdSide, rdCache, rdWrites, rdCalls, flowAll, pprVars, gwVars, extVars>>

(***************************************************************************)
(* EIP20Gateway.isBountyAmountApproved / isStakeAmountApproved.            *)
(***************************************************************************)
ApprovalOps == {"isBountyAmountApproved", "isStakeAmountApproved"}
\* The instance's fields that may be set before the call.
ApprovalCacheFields == {"_bountyAmount", "_eip20BaseToken", "_eip20ValueToken"}
ApprovalCallees ==
  {"getBounty", "getBaseTokenContract", "getValueTokenContract",
   "isAmountApproved"}
\* this.address
GatewayAddress == "0x..02"
\* The amounts isStakeAmountApproved is called with: a string, no string.
ApprovalAmounts == {"1000", Undefined}

ApprovalCall(op, address, amt) == <<op, address, amt>>
apOp == TheOne(apCall)[1]
apAddress == TheOne(apCall)[2]
apAmount == TheOne(apCall)[3]

\* The token contract object each operation asks.
TokenContractOf(op) ==
  IF op = "isBountyAmountApproved" THEN "getBaseTokenContract"
  ELSE "getValueTokenContract"
TokenFieldOf(op) ==
  IF op = "isBountyAmountApproved" THEN "_eip20BaseToken" ELSE "_eip20ValueToken"

\* The checks made before anything is read; {} when they pass.
isApprovedRejects(op, address, amt) ==
  IF ~isAddress(address)
    THEN {IF op = "isBountyAmountApproved" THEN "Invalid facilitator address"
          ELSE "Invalid staker address"}
  ELSE IF op = "isStakeAmountApproved" /\ ~isString(amt)
    THEN {"Invalid stake amount"}
  ELSE {}

IsAmountApprovedArgsSwapped(address, amt) == <<GatewayAddress, address, amt>>

\* eip20Token.isAmountApproved(address, this.address, amount)
IsAmountApprovedArgs(address, amt) == <<address, GatewayAddress, amt>>

\* What the token answers: whether the allowance covers the amount.
TokenAnswer(op) ==
  IF op = "isBountyAmountApproved" THEN bountyApproved ELSE stakeApproved

ApprovalSettle(result) ==
  /\ apResult' = {result}
  /\ apPc' = "done"

\* isBountyAmountApproved(facilityAddress) / isStakeAmountApproved(
\* stakerAddress, amount) up to the request for the token contract.
IsApprovedCall(op, address, amt) ==
  /\ apPc = "idle"
  /\ apCall' = {ApprovalCall(op, address, amt)}
  /\ IF isApprovedRejects(op, address, amt) # {}
       THEN /\ ApprovalSettle(TheOne(isApprovedRejects(op, address, amt)))
            /\ UNCHANGED apCalls
       ELSE /\ apCalls' = [apCalls EXCEPT ![TokenContractOf(op)] = @ + 1]
            /\ apPc' = "token"
            /\ UNCHANGED apResult
  /\ UNCHANGED <<apCached, apAsked, exceptApVars>>

\* get*TokenContract() resolves (from the field, or after reading the token
\* address from the chain) or, when the field is unset, fails. Then the
\* bounty is requested, or the token is asked directly.
TokenContractReturn ==
  /\ apPc = "token"
  /\ \/ /\ TokenFieldOf(apOp) \notin apCached
        /\ ApprovalSettle("ChainError")
        /\ UNCHANGED <<apCached, apCalls, apAsked>>
     \/ /\ apCached' = apCached \cup {TokenFieldOf(apOp)}
        /\ UNCHANGED apResult
        /\ IF apOp = "isBountyAmountApproved"
             THEN /\ apCalls' = [apCalls EXCEPT !["getBounty"] = @ + 1]
                  /\ apPc' = "bounty"
                  /\ UNCHANGED apAsked
             ELSE /\ apCalls' = [apCalls EXCEPT !["isAmountApproved"] = @ + 1]
                  /\ apAsked' = Append(apAsked,
                                       IsAmountApprovedArgs(apAddress, apAmount))
                  /\ apPc' = "asking"
  /\ UNCHANGED <<apCall, exceptApVars>>

\* getBounty() resolves (from the field or from the chain) or, when the field
\* is unset, fails; with the bounty the token is asked.
ApprovalBountyReturn ==
  /\ apPc = "bounty"
  /\ \/ /\ "_bountyAmount" \notin apCached
        /\ ApprovalSettle("ChainError")
        /\ UNCHANGED <<apCached, apCalls, apAsked>>
     \/ /\ apCached' = apCached \cup {"_bountyAmount"}
        /\ apCalls' = [apCalls EXCEPT !["isAmountApproved"] = @ + 1]
        /\ apAsked' = Append(apAsked, IsAmountApprovedArgs(apAddress, bounty))
        /\ apPc' = "asking"
        /\ UNCHANGED apResult
  /\ UNCHANGED <<apCall, exceptApVars>>

\* The token's isAmountApproved answers or fails; its answer is the result.
IsAmountApprovedReturn ==
  /\ apPc = "asking"
  /\ \/ ApprovalSettle("ChainError")
     \/ ApprovalSettle(IF TokenAnswer(apOp) THEN "true" ELSE "false")
  /\ UNCHANGED <<apCall, apCached, apCalls, apAsked, exceptApVars>>

(***************************************************************************)
(* Utils.toHashLock and Utils.createSecretHashLock, called repeatedly.     *)
(***************************************************************************)
\* Utils.toHashLock(secretString), the call and what it returned.
ToHashLockCall(secretString) ==
  /\ Len(hlCalls) < MaxHashCalls
  /\ hlCalls' = Append(hlCalls, <<secretString, toHashLock(secretString)>>)
  /\ UNCHANGED <<hlGenerated, exceptHlVars>>

\* Utils.createSecretHashLock(), with the secret the random source gives.
CreateSecretHashLockCall ==
  /\ Len(hlGenerated) < MaxHashCalls
  /\ \E hl \in createSecretHashLock : hlGenerated' = Append(hlGenerated, hl)
  /\ UNCHANGED <<hlCalls, exceptHlVars>>

(***************************************************************************)
(* Two stake flows of one staker, run by Facilitate.stake at the same time. *)
(***************************************************************************)
StakeFlows == {1, 2}

\* The transactions of one flow among those submitted.
SentBy(f) == {i \in 1 .. Len(tsSent) : tsSent[i][1] = f}

\* The Gateway accepts a stake only with the staker's current nonce.
GatewayAcceptsNonce(n) == n = tsChainNonce

TsReject(f, err) ==
  /\ tsPc' = [tsPc EXCEPT ![f] = "rejected"]
  /\ tsResult' = [tsResult EXCEPT ![f] = {err}]

\* Facilitate.stake(staker, ...): this.getOriginChainNonce(staker) in flight.
TwoStakesFacilitateCall(f) ==
  /\ tsPc[f] = "init"
  /\ tsPc' = [tsPc EXCEPT ![f] = "facilitateNonce"]
  /\ UNCHANGED <<tsInitialNonce, tsChainNonce, tsNonce, tsStakeNonce, tsSent,
                 tsAccepted, tsResult, exceptTsVars>>

\* gateway.getNonce(staker) answers: facilitator.stake is called, which asks
\* for the nonce itself.
TwoStakesNonceReturn(f) ==
  /\ tsPc[f] = "facilitateNonce"
  /\ \/ /\ TsReject(f, "ChainError")
        /\ UNCHANGED tsNonce
     \/ /\ tsNonce' = [tsNonce EXCEPT ![f] = {tsChainNonce}]
        /\ tsPc' = [tsPc EXCEPT ![f] = "stakeNonce"]
        /\ UNCHANGED tsResult
  /\ UNCHANGED <<tsInitialNonce, tsChainNonce, tsStakeNonce, tsSent, tsAccepted,
                 exceptTsVars>>

\* Facilitator.stake has its nonce: gateway.stake(..., nonce, hashLock,
\* txOptions) submits the declaration.
FacilitatorStakeNonceReturn(f) ==
  /\ tsPc[f] = "stakeNonce"
  /\ \/ /\ TsReject(f, "ChainError")
        /\ UNCHANGED <<tsStakeNonce, tsSent>>
     \/ /\ tsStakeNonce' = [tsStakeNonce EXCEPT ![f] = {tsChainNonce}]
        /\ tsSent' = Append(tsSent, <<f, tsChainNonce>>)
        /\ tsPc' = [tsPc EXCEPT ![f] = "sent"]
        /\ UNCHANGED tsResult
  /\ UNCHANGED <<tsInitialNonce, tsChainNonce, tsNonce, tsAccepted, exceptTsVars>>

StakeDeclarationReturnRetrying(f) ==
  /\ tsPc[f] = "sent"
  /\ \/ /\ GatewayAcceptsNonce(TheOne(tsStakeNonce[f]))
        /\ tsChainNonce' = tsChainNonce + 1
        /\ tsAccepted' = tsAccepted \cup {f}
        /\ tsPc' = [tsPc EXCEPT ![f] = "wait"]
        /\ tsResult' = [tsResult EXCEPT ![f] = {"receipt"}]
        /\ UNCHANGED <<tsStakeNonce, tsSent>>
     \/ /\ Cardinality(SentBy(f)) < 2
        /\ tsStakeNonce' = [tsStakeNonce EXCEPT ![f] = {tsChainNonce}]
        /\ tsSent' = Append(tsSent, <<f, tsChainNonce>>)
        /\ UNCHANGED <<tsChainNonce, tsAccepted, tsPc, tsResult>>
     \/ /\ Cardinality(SentBy(f)) >= 2
        /\ TsReject(f, "TransactionReverted")
        /\ UNCHANGED <<tsChainNonce, tsAccepted, tsStakeNonce, tsSent>>
  /\ UNCHANGED <<tsInitialNonce, tsNonce, exceptTsVars>>

\* The declaration is mined: accepted with the staker's current nonce, which
\* then grows by one, and reverted otherwise; the result is the result of
\* facilitator.stake, and on the receipt the flow goes on to its wait.
StakeDeclarationReturn(f) ==
  /\ tsPc[f] = "sent"
  /\ \/ /\ GatewayAcceptsNonce(TheOne(tsStakeNonce[f]))
        /\ tsChainNonce' = tsChainNonce + 1
        /\ tsAccepted' = tsAccepted \cup {f}
        /\ tsPc' = [tsPc EXCEPT ![f] = "wait"]
        /\ tsResult' = [tsResult EXCEPT ![f] = {"receipt"}]
     \/ /\ TsReject(f, "TransactionReverted")
        /\ UNCHANGED <<tsChainNonce, tsAccepted>>
  /\ UNCHANGED <<tsInitialNonce, tsNonce, tsStakeNonce, tsSent, exceptTsVars>>

(***************************************************************************)
(* AnchorStateRoot: the anchoring worker.                                  *)
(***************************************************************************)
OtherChain(c) == IF c = "origin" THEN "auxiliary" ELSE "origin"

Submission(anchor, chain, blockNumber, outcome) ==
  <<anchor, chain, blockNumber, outcome>>
submissionAnchor(sub) == sub[1]
submissionChain(sub) == sub[2]
submissionBlock(sub) == sub[3]
submissionOutcome(sub) == sub[4]

\* The anchor the worker is working on in each of its positions.
AnchorOfPc(p) ==
  IF p \in {"sleepOrigin", "blockOrigin", "anchorOrigin"} THEN "origin"
  ELSE "auxiliary"

\* The Anchor contract commits only a height above the committed one.
AnchorAccepts(anchor, blockNumber) == blockNumber > awAnchorHeight[anchor]

\* run() / start(txOptionsOrigin, txOptionsAuxiliary, ...): stores the options
\* and calls commitOrigin, which sleeps first.
AnchorWorkerStart ==
  /\ awPc = "idle"
  /\ awPc' = "sleepOrigin"
  /\ UNCHANGED <<awLatest, awAnchorHeight, awSubmissions, exceptAwVars>>

\* await sleep(TIME_DURATION) ends: anchorOrigin / anchorAuxiliary asks for
\* the latest block of the other chain.
CommitSleepReturn ==
  /\ awPc \in {"sleepOrigin", "sleepAuxiliary"}
  /\ Len(awSubmissions) < MaxSubmissions
  /\ awPc' = IF awPc = "sleepOrigin" THEN "blockOrigin" ELSE "blockAuxiliary"
  /\ UNCHANGED <<awLatest, awAnchorHeight, awSubmissions, exceptAwVars>>

\* getAuxiliaryBlock / getOriginBlock answers: the block's number and state
\* root go to anchorStateRoot of the anchor; or it fails and the worker's
\* chain of calls ends.
GetBlockReturn ==
  /\ awPc \in {"blockOrigin", "blockAuxiliary"}
  /\ \/ /\ awPc' = "failed"
        /\ UNCHANGED awSubmissions
     \/ LET anchor == AnchorOfPc(awPc)
            chain == OtherChain(anchor)
        IN /\ awSubmissions' =
                Append(awSubmissions,
                       Submission(anchor, chain, awLatest[chain], "pending"))
           /\ awPc' = IF anchor = "origin" THEN "anchorOrigin" ELSE "anchorAuxiliary"
  /\ UNCHANGED <<awLatest, awAnchorHeight, exceptAwVars>>

SetOutcome(outcome) ==
  [awSubmissions EXCEPT ![Len(awSubmissions)] =
     Submission(submissionAnchor(@), submissionChain(@), submissionBlock(@),
                outcome)]

AnchorSubmissionReturnContinuing ==
  /\ awPc \in {"anchorOrigin", "anchorAuxiliary"}
  /\ LET anchor == AnchorOfPc(awPc)
         sub == awSubmissions[Len(awSubmissions)]
     IN \/ /\ AnchorAccepts(anchor, submissionBlock(sub))
           /\ awAnchorHeight' = [awAnchorHeight EXCEPT ![anchor] = submissionBlock(sub)]
           /\ awSubmissions' = SetOutcome("receipt")
           /\ awPc' = IF anchor = "origin" THEN "sleepAuxiliary" ELSE "sleepOrigin"
        \/ /\ awSubmissions' = SetOutcome("failed")
           /\ awPc' = IF anchor = "origin" THEN "sleepAuxiliary" ELSE "sleepOrigin"
           /\ UNCHANGED awAnchorHeight
  /\ UNCHANGED <<awLatest, exceptAwVars>>

\* anchorStateRoot settles. On the receipt commitOrigin calls commitAuxiliary
\* (and commitAuxiliary calls commitOrigin), which sleeps; on a failure the
\* await throws out of the async function and nothing is called any more.
AnchorSubmissionReturn ==
  /\ awPc \in {"anchorOrigin", "anchorAuxiliary"}
  /\ LET anchor == AnchorOfPc(awPc)
         sub == awSubmissions[Len(awSubmissions)]
     IN \/ /\ AnchorAccepts(anchor, submissionBlock(sub))
           /\ awAnchorHeight' = [awAnchorHeight EXCEPT ![anchor] = submissionBlock(sub)]
           /\ awSubmissions' = SetOutcome("receipt")
           /\ awPc' = IF anchor = "origin" THEN "sleepAuxiliary" ELSE "sleepOrigin"
        \/ /\ awSubmissions' = SetOutcome("failed")
           /\ awPc' = "failed"
           /\ UNCHANGED awAnchorHeight
  /\ UNCHANGED <<awLatest, exceptAwVars>>

\* A chain gets a new block.
NewBlock(c) ==
  /\ awPc # "none"
  /\ awLatest[c] < MaxHeight
  /\ awLatest' = [awLatest EXCEPT ![c] = @ + 1]
  /\ UNCHANGED <<awPc, awAnchorHeight, awSubmissions, exceptAwVars>>

(***************************************************************************)
(* EIP20Gateway.setupPair.                                                 *)
(***************************************************************************)
\* The addresses a deployment can give the new contract.
GatewayAddresses == {"0x..a1", "0x..a2"}
CoGatewayAddresses == {"0x..b1", "0x..b2"}

\* The arguments of setupPair: whether each configuration has its required
\* keys, whether the arguments of each step pass the checks of the step (the
\* from address of its options and the addresses of its RawTx builder), and
\* whether the options of each chain carry a gas.
SetupInput(gwComplete, coComplete, gwValid, coValid, ownerValid, originGas, auxGas) ==
  <<gwComplete, coComplete, gwValid, coValid, ownerValid, originGas, auxGas>>
SetupInputs ==
  {SetupInput(a, b, c, d, e, f, g) :
     a \in BOOLEAN, b \in BOOLEAN, c \in BOOLEAN, d \in BOOLEAN, e \in BOOLEAN,
     f \in BOOLEAN, g \in BOOLEAN}

gatewayConfigComplete(input) == input[1]
coGatewayConfigComplete(input) == input[2]

\* The checks of a step's operation pass: deploy and activateGateway check
\* txOptions.from, their RawTx builders the addresses.
StepValid(input, phase) ==
  IF phase = 1 THEN input[3] ELSE IF phase = 2 THEN input[4] ELSE input[5]

\* The options of a step carry a gas: the origin options in steps 1 and 3,
\* the auxiliary options in step 2.
StepGas(input, phase) == IF phase = 2 THEN input[7] ELSE input[6]

CoGatewayConfigGatewayDummy(gatewayAddress) == "dummy"

\* _coGatewayConfig.gateway: the address of the deployed Gateway.
CoGatewayConfigGateway(gatewayAddress) == gatewayAddress

\* The transaction of each step: its method, the from of its options, and
\* the parameter that comes from an earlier step.
SetupTx(phase, gatewayAddress, coGatewayAddress) ==
  IF phase = 1 THEN <<"deployGateway", "gatewayConfig.deployer", "none">>
  ELSE IF phase = 2
    THEN <<"deployCoGateway", "coGatewayConfig.deployer",
           CoGatewayConfigGateway(TheOne(gatewayAddress))>>
  ELSE <<"activateGateway", "gatewayConfig.organizationOwner",
         TheOne(coGatewayAddress)>>

\* A step begins: the checks of its operation, then Utils.sendTransaction up
\* to its first pending chain call.
SetupStepBegins(input, phase, gatewayAddress, coGatewayAddress) ==
  /\ spPhase' = phase
  /\ IF ~StepValid(input, phase)
       THEN /\ spStep' = "failed"
            /\ spResult' = {"TypeError"}
            /\ UNCHANGED spTxs
       ELSE /\ UNCHANGED spResult
            /\ IF StepGas(input, phase)
                 THEN /\ spTxs' = Append(spTxs, SetupTx(phase, gatewayAddress,
                                                         coGatewayAddress))
                      /\ spStep' = "sending"
                 ELSE /\ spStep' = "estimating"
                      /\ UNCHANGED spTxs

\* setupPair(originWeb3, auxiliaryWeb3, gatewayConfig, coGatewayConfig,
\* originTxOptions, auxiliaryTxOptions): both configurations are validated
\* (an exception when a key is missing), then EIP20Gateway.deploy is called.
SetupPairCall(input) ==
  /\ spStep = "idle"
  /\ spInput' = {input}
  /\ IF ~gatewayConfigComplete(input) \/ ~coGatewayConfigComplete(input)
       THEN /\ spStep' = "thrown"
            /\ spResult' = {"Mandatory configuration missing"}
            /\ UNCHANGED <<spPhase, spTxs>>
       ELSE SetupStepBegins(input, 1, {}, {})
  /\ UNCHANGED <<spGatewayAddress, spCoGatewayAddress, exceptSpVars>>

\* tx.estimateGas of the running step answers and the transaction is sent, or
\* it fails and the step never settles.
SetupEstimateGasReturn ==
  /\ spStep = "estimating"
  /\ \/ /\ spTxs' = Append(spTxs, SetupTx(spPhase, spGatewayAddress,
                                           spCoGatewayAddress))
        /\ spStep' = "sending"
     \/ /\ spStep' = "hung"
        /\ UNCHANGED spTxs
  /\ UNCHANGED <<spInput, spPhase, spGatewayAddress, spCoGatewayAddress, spResult,
                 exceptSpVars>>

\* The transaction of the running step settles. On a receipt the next step
\* begins (the CoGateway's deployment after the Gateway's, the activation
\* after both), or the pair is returned; an error rejects the whole call.
SetupSendReturn ==
  /\ spStep = "sending"
  /\ \/ /\ spStep' = "failed"
        /\ spResult' = {"TransactionReverted"}
        /\ UNCHANGED <<spPhase, spTxs, spGatewayAddress, spCoGatewayAddress>>
     \/ /\ spPhase = 1
        /\ \E address \in GatewayAddresses :
             /\ spGatewayAddress' = {address}
             /\ SetupStepBegins(TheOne(spInput), 2, {address}, {})
        /\ UNCHANGED spCoGatewayAddress
     \/ /\ spPhase = 2
        /\ \E address \in CoGatewayAddresses :
             /\ spCoGatewayAddress' = {address}
             /\ SetupStepBegins(TheOne(spInput), 3, spGatewayAddress, {address})
        /\ UNCHANGED spGatewayAddress
     \/ /\ spPhase = 3
        /\ spStep' = "done"
        /\ spResult' = {"pair"}
        /\ UNCHANGED <<spPhase, spTxs, spGatewayAddress, spCoGatewayAddress>>
  /\ UNCHANGED <<spInput, exceptSpVars>>

(***************************************************************************)
(* Specifications.                                                         *)
(***************************************************************************)
ApNone ==
  /\ apPc = "none"
  /\ apCall = {}
  /\ apCached = {}
  /\ apCalls = [callee \in ApprovalCallees |-> 0]
  /\ apAsked = <<>>
  /\ apResult = {}

HlNone ==
  /\ hlCalls = <<>>
  /\ hlGenerated = <<>>

TsNone ==
  /\ tsInitialNonce = 0
  /\ tsChainNonce = 0
  /\ tsPc = [f \in StakeFlows |-> "none"]
  /\ tsNonce = [f \in StakeFlows |-> {}]
  /\ tsStakeNonce = [f \in StakeFlows |-> {}]
  /\ tsSent = <<>>
  /\ tsAccepted = {}
  /\ tsResult = [f \in StakeFlows |-> {}]

AwNone ==
  /\ awPc = "none"
  /\ awLatest = [c \in Chains |-> 1]
  /\ awAnchorHeight = [c \in Chains |-> 0]
  /\ awSubmissions = <<>>

SpNone ==
  /\ spInput = {}
  /\ spPhase = 0
  /\ spStep = "none"
  /\ spTxs = <<>>
  /\ spGatewayAddress = {}
  /\ spCoGatewayAddress = {}
  /\ spResult = {}

ExtNone ==
  /\ ApNone
  /\ HlNone
  /\ TsNone
  /\ AwNone
  /\ SpNone

RdNone ==
  /\ rdSide = "none"
  /\ rdCache = [getter \in AllGetters |-> {}]
  /\ rdWrites = [getter \in AllGetters |-> 0]
  /\ rdStatus = [box \in Boxes |-> "Undeclared"]
  /\ rdCalls = <<>>

GwNone ==
  /\ gwPc = "none"
  /\ gwOp = {}
  /\ gwArgs = {}
  /\ gwCallerOptions = {}
  /\ gwTxOptions = {}
  /\ gwBuilt = 0
  /\ gwTx = {}
  /\ gwEstimates = 0
  /\ gwSent = <<>>
  /\ gwApproveCalls = 0
  /\ gwResult = {}

PPRNone ==
  /\ outboxStatus = "Undeclared"
  /\ pprPc = "none"
  /\ pprArgs = {}
  /\ statusQueries = 0
  /\ statusRead = {}
  /\ progressRedeemCalls = <<>>
  /\ progressRedeemResult = {}
  /\ sent = <<>>
  /\ pprResult = {}

Init ==
  /\ ExtNone
  /\ RdNone
  /\ PPRNone
  /\ GwNone
  /\ anchorHeight = [c \in Chains |-> 0]
  /\ chainNonce \in 0 .. MaxNonce
  /\ bounty \in 1 .. MaxBounty
  /\ stakeApproved \in BOOLEAN
  /\ bountyApproved \in BOOLEAN
  /\ kind \in Kinds
  /\ accountValid \in BOOLEAN
  /\ amount \in 0 .. MaxAmount
  /\ pc = "init"
  /\ generatedHashLock = {}
  /\ nonce = {}
  /\ calls = <<>>
  /\ txLog = <<>>
  /\ declareBlock = {}
  /\ flowResult = "pending"
  /\ waitPc = "idle"
  /\ waitAnchor = {}
  /\ waitTarget = {}
  /\ lastObserved = {}
  /\ cancelRequested = FALSE

FlowStep ==
  \/ FacilitateCall
  \/ NonceReturn
  \/ BountyReturn
  \/ FacilitatorDeclare
  \/ DeclareReturn
  \/ PollReturn
  \/ SleepWake
  \/ ProgressCall
  \/ ProgressReturn

Next ==
  \/ FlowStep
  \/ \E c \in Chains : AnchorCommit(c)
  \/ Cancel

Spec == Init /\ [][Next]_vars

\* A pending chain call returns and a timer fires; the anchors and the
\* caller owe nothing.
FairSpec == Init /\ [][Next]_vars /\ WF_vars(FlowStep)

FlowQuiet ==
  /\ anchorHeight = [c \in Chains |-> 0]
  /\ chainNonce = 0
  /\ kind = "stake"
  /\ accountValid = FALSE
  /\ amount = 0
  /\ pc = "none"
  /\ generatedHashLock = {}
  /\ nonce = {}
  /\ calls = <<>>
  /\ txLog = <<>>
  /\ declareBlock = {}
  /\ flowResult = "pending"
  /\ waitPc = "idle"
  /\ waitAnchor = {}
  /\ waitTarget = {}
  /\ lastObserved = {}
  /\ cancelRequested = FALSE

FlowNone ==
  /\ bounty = 1
  /\ FlowQuiet

InitPPR ==
  /\ ExtNone
  /\ RdNone
  /\ FlowNone
  /\ GwNone
  /\ stakeApproved = FALSE
  /\ bountyApproved = FALSE
  /\ outboxStatus \in MessageStatus
  /\ pprPc = "idle"
  /\ pprArgs = {}
  /\ statusQueries = 0
  /\ statusRead = {}
  /\ progressRedeemCalls = <<>>
  /\ progressRedeemResult = {}
  /\ sent = <<>>
  /\ pprResult = {}

NextPPR ==
  \/ \E messageHash \in MessageHashes \cup {Undefined},
        unlockSecret \in UnlockSecrets \cup {Undefined},
        txOptions \in TxOptionsValues :
       PerformProgressRedeem(messageHash, unlockSecret, txOptions)
  \/ StatusReturn
  \/ ProgressEstimateGasReturn
  \/ SendReturn
  \/ OutboxTransition

SpecPPR == InitPPR /\ [][NextPPR]_vars

InitGateway ==
  /\ ExtNone
  /\ RdNone
  /\ FlowNone
  /\ PPRNone
  /\ stakeApproved \in BOOLEAN
  /\ bountyApproved \in BOOLEAN
  /\ gwPc = "idle"
  /\ gwOp = {}
  /\ gwArgs = {}
  /\ gwCallerOptions = {}
  /\ gwTxOptions = {}
  /\ gwBuilt = 0
  /\ gwTx = {}
  /\ gwEstimates = 0
  /\ gwSent = <<>>
  /\ gwApproveCalls = 0
  /\ gwResult = {}

\* The argument lists the declare operations are called with.
DeclareArgsValues ==
  {StakeArgs(a, beneficiaryValid, gasPriceDefined, gasLimitDefined, n, hl,
             txOptions) :
     a \in Amounts, beneficiaryValid \in BOOLEAN, gasPriceDefined \in BOOLEAN,
     gasLimitDefined \in BOOLEAN, n \in {Undefined, "1"},
     hl \in {Undefined, "0xhashlock"}, txOptions \in GwTxOptionsValues}

\* The argument lists the progress operations are called with.
ProgressArgsValues ==
  {ProgressArgs(messageHash, unlockSecret, txOptions) :
     messageHash \in {Undefined, "0x..01"},
     unlockSecret \in {Undefined, "0x..02"},
     txOptions \in GwTxOptionsValues}

NextGateway ==
  \/ \E a \in DeclareArgsValues : GatewayStakeCall(a)
  \/ \E a \in DeclareArgsValues : CoGatewayRedeemCall(a)
  \/ \E a \in DeclareArgsValues : StakeRawTxCall(SubSeq(a, 1, 6))
  \/ \E a \in DeclareArgsValues : RedeemRawTxCall(SubSeq(a, 1, 6))
  \/ \E method \in ProgressMethods, a \in ProgressArgsValues :
       ProgressOperationCall(method, a)
  \/ \E method \in ProgressMethods, a \in ProgressArgsValues :
       ProgressRawTxCall(method, SubSeq(a, 1, 2))
  \/ \E op \in OtherWriteOps, valid \in BOOLEAN, txOptions \in GwTxOptionsValues :
       OtherWriteOperationCall(op, OtherArgs(valid, txOptions))
  \/ \E op \in ApproveOps, amountIsString \in BOOLEAN,
        txOptions \in GwTxOptionsValues :
       ApproveCall(op, ApproveArgs(amountIsString, txOptions))
  \/ TokenApproveReturn
  \/ EstimateGasReturn
  \/ GatewaySendReturn

SpecGateway == InitGateway /\ [][NextGateway]_vars

InitRead ==
  /\ ExtNone
  /\ FlowNone
  /\ PPRNone
  /\ GwNone
  /\ stakeApproved = FALSE
  /\ bountyApproved = FALSE
  /\ rdSide \in Chains
  /\ rdCache = [getter \in AllGetters |-> {}]
  /\ rdWrites = [getter \in AllGetters |-> 0]
  /\ rdStatus = [box \in Boxes |-> "Undeclared"]
  /\ rdCalls = <<>>

NextRead ==
  \/ \E getter \in Getters(rdSide) : ReadCall(GetterCall(getter))
  \/ \E accountAddress \in AccountArguments : ReadCall(GetNonceCall(accountAddress))
  \/ \E op \in StatusOps, messageHash \in HashArguments :
       ReadCall(StatusCall(op, messageHash))
  \/ \E i \in 1 .. Len(rdCalls) : ReadReturn(i)
  \/ \E i \in 1 .. Len(rdCalls) : ReadFail(i)
  \/ \E box \in Boxes : MessageStatusChange(box)

SpecRead == InitRead /\ [][NextRead]_vars

InitHashLock ==
  /\ FlowNone
  /\ stakeApproved = FALSE
  /\ bountyApproved = FALSE
  /\ PPRNone
  /\ GwNone
  /\ RdNone
  /\ ApNone
  /\ HlNone
  /\ TsNone
  /\ AwNone
  /\ SpNone

NextHashLock ==
  \/ \E secretString \in Secrets : ToHashLockCall(secretString)
  \/ CreateSecretHashLockCall

SpecHashLock == InitHashLock /\ [][NextHashLock]_vars

\* The state outside the extensions, at rest.
BaseNone ==
  /\ FlowNone
  /\ stakeApproved = FALSE
  /\ bountyApproved = FALSE
  /\ PPRNone
  /\ GwNone
  /\ RdNone

InitSetup ==
  /\ BaseNone
  /\ ApNone
  /\ HlNone
  /\ TsNone
  /\ AwNone
  /\ spInput = {}
  /\ spPhase = 0
  /\ spStep = "idle"
  /\ spTxs = <<>>
  /\ spGatewayAddress = {}
  /\ spCoGatewayAddress = {}
  /\ spResult = {}

NextSetup ==
  \/ \E input \in SetupInputs : SetupPairCall(input)
  \/ SetupEstimateGasReturn
  \/ SetupSendReturn

SpecSetup == InitSetup /\ [][NextSetup]_vars

InitWorker ==
  /\ BaseNone
  /\ ApNone
  /\ HlNone
  /\ TsNone
  /\ SpNone
  /\ awPc = "idle"
  /\ awLatest \in [Chains -> 1 .. MaxHeight]
  /\ awAnchorHeight \in [Chains -> 0 .. 1]
  /\ awSubmissions = <<>>

NextWorker ==
  \/ AnchorWorkerStart
  \/ CommitSleepReturn
  \/ GetBlockReturn
  \/ AnchorSubmissionReturn
  \/ \E c \in Chains : NewBlock(c)

SpecWorker == InitWorker /\ [][NextWorker]_vars

InitTwoStakes ==
  /\ BaseNone
  /\ ApNone
  /\ HlNone
  /\ AwNone
  /\ SpNone
  /\ tsInitialNonce \in 0 .. MaxNonce
  /\ tsChainNonce = tsInitialNonce
  /\ tsPc = [f \in StakeFlows |-> "init"]
  /\ tsNonce = [f \in StakeFlows |-> {}]
  /\ tsStakeNonce = [f \in StakeFlows |-> {}]
  /\ tsSent = <<>>
  /\ tsAccepted = {}
  /\ tsResult = [f \in StakeFlows |-> {}]

NextTwoStakes ==
  \E f \in StakeFlows :
    \/ TwoStakesFacilitateCall(f)
    \/ TwoStakesNonceReturn(f)
    \/ FacilitatorStakeNonceReturn(f)
    \/ StakeDeclarationReturn(f)

SpecTwoStakes == InitTwoStakes /\ [][NextTwoStakes]_vars

InitApproval ==
  /\ HlNone
  /\ TsNone
  /\ AwNone
  /\ SpNone
  /\ FlowQuiet
  /\ bounty \in 1 .. MaxBounty
  /\ PPRNone
  /\ GwNone
  /\ RdNone
  /\ stakeApproved \in BOOLEAN
  /\ bountyApproved \in BOOLEAN
  /\ apPc = "idle"
  /\ apCall = {}
  /\ apCached \in SUBSET ApprovalCacheFields
  /\ apCalls = [callee \in ApprovalCallees |-> 0]
  /\ apAsked = <<>>
  /\ apResult = {}

NextApproval ==
  \/ \E op \in ApprovalOps, address \in AccountArguments \cup {Undefined},
        amt \in ApprovalAmounts :
       IsApprovedCall(op, address, amt)
  \/ TokenContractReturn
  \/ ApprovalBountyReturn
  \/ IsAmountApprovedReturn

SpecApproval == InitApproval /\ [][NextApproval]_vars

\* The chain client answers every request of the progression.
FairSpecPPR ==
  SpecPPR /\ WF_vars(StatusReturn \/ ProgressEstimateGasReturn \/ SendReturn)

\* The chain client answers every request: a step that can be taken is taken.
FairSpecGateway == InitGateway /\ [][NextGateway]_vars /\ WF_vars(NextGateway)

(***************************************************************************)
(* Properties.                                                             *)
(***************************************************************************)
ProgressOps == {"Facilitator.progressStake", "Facilitator.progressRedeem"}
DeclareOps == {"Facilitator.stake", "Facilitator.redeem"}
ProgressSubmitted == \E i \in 1 .. Len(calls) : calls[i].op \in ProgressOps

\* C1: within one flow the declaration is confirmed first, then the wait for
\* the declaration's block number on the counter-chain anchor runs, and the
\* progression is called only once that wait has resolved; it is never called
\* when the declaration or the wait failed.
C1_DeclareWaitProgress ==
  /\ waitPc # "idle" =>
       /\ declareBlock # {}
       /\ waitTarget = declareBlock
       /\ waitAnchor = {IF kind = "stake" THEN "auxiliary" ELSE "origin"}
       /\ \E i \in 1 .. Len(calls) : calls[i].op \in DeclareOps
  /\ ProgressSubmitted =>
       /\ declareBlock # {}
       /\ waitPc = "resolved"
  /\ (declareBlock = {} \/ waitPc = "rejected") => ~ProgressSubmitted

C1_Witness ==
  /\ pc = "progress"
  /\ ProgressSubmitted
  /\ waitPc = "resolved"

\* C4: the wait returns as soon as a poll observes a committed height greater
\* than or equal to the target (equality suffices), and has not returned
\* while the observed heights are below the target.
C4_WaitReturnsAtTarget ==
  /\ waitPc = "sleeping" => TheOne(lastObserved) < TheOne(waitTarget)
  /\ waitPc = "resolved" => TheOne(lastObserved) >= TheOne(waitTarget)

\* C5: the anchor wait always terminates: a wait that has started ends,
\* resolved or failed, unless the committed height reaches the target (when
\* it never does, the wait is to fail with AnchorWaitTimeout).
C5_WaitTerminates ==
  (waitPc = "polling") ~>
    \/ waitPc \in {"resolved", "rejected"}
    \/ /\ waitAnchor # {}
       /\ anchorHeight[TheOne(waitAnchor)] >= TheOne(waitTarget)

\* C6: once the caller has signalled cancellation, no further poll is issued
\* and the progression of that flow is not submitted.
C6_CancelEndsWait ==
  [][cancelRequested =>
       /\ ~(waitPc = "sleeping" /\ waitPc' = "polling")
       /\ ~(pc # "progress" /\ pc' = "progress")]_vars

\* C8: the unlock secret handed to the progression hashes to the hash lock
\* handed to the declaration of the same flow (and to the one sent to the
\* chain), and no call or transaction before the progression carries it.
C8_UnlockSecretOpensHashLock ==
  /\ \A i \in 1 .. Len(txLog) : txLog[i].unlockSecret = {}
  /\ \A i \in 1 .. Len(calls) :
       IF calls[i].op \in ProgressOps
         THEN /\ calls[i].unlockSecret # {}
              /\ \E j \in 1 .. (i - 1) : calls[j].op \in DeclareOps
              /\ \A j \in 1 .. (i - 1) :
                   /\ calls[j].unlockSecret = {}
                   /\ calls[j].op \in DeclareOps =>
                        keccak256(TheOne(calls[i].unlockSecret)) = calls[j].hashLock
              /\ \A j \in 1 .. Len(txLog) :
                   keccak256(TheOne(calls[i].unlockSecret)) = txLog[j].hashLock
         ELSE calls[i].unlockSecret = {}

C8_Witness ==
  /\ pc = "progress"
  /\ Len(txLog) = 1
  /\ \E i \in 1 .. Len(calls) :
       /\ calls[i].op \in ProgressOps
       /\ keccak256(TheOne(calls[i].unlockSecret)) = txLog[1].hashLock

AmountOps == {"stake", "redeem", "stakeRawTx", "redeemRawTx"}
InvalidAmountErrors ==
  {"Stake amount must be greater than zero",
   "Redeem amount must be greater than zero"}
NonPositiveAmountCall ==
  /\ gwOp # {}
  /\ TheOne(gwOp) \in AmountOps
  /\ argAmount(TheOne(gwArgs)) <= 0
NoNetworkCall ==
  /\ gwBuilt = 0
  /\ gwTx = {}
  /\ gwEstimates = 0
  /\ gwSent = <<>>
  /\ gwApproveCalls = 0

\* C11 (as stated): stake, redeem and their RawTx builders called with an
\* amount that is zero or negative reject with the invalid-amount error,
\* whatever the other arguments are, and build, estimate and send nothing.
C11_InvalidAmountWhateverTheRest ==
  NonPositiveAmountCall =>
    /\ gwPc = "done"
    /\ gwResult \subseteq InvalidAmountErrors
    /\ gwResult # {}
    /\ NoNetworkCall

\* C11 (amended): called with an amount that is zero or negative they
\* reject and build, estimate and send nothing; the rejection is the
\* invalid-amount error for the RawTx builders, and for stake and redeem
\* when txOptions and its from are valid (the txOptions error comes first).
C11_InvalidAmountRejected ==
  NonPositiveAmountCall =>
    /\ gwPc = "done"
    /\ gwResult # {}
    /\ gwResult # {"receipt"}
    /\ gwResult # {"raw transaction"}
    /\ NoNetworkCall
    /\ TheOne(gwOp) \in {"stakeRawTx", "redeemRawTx"} =>
         gwResult \subseteq InvalidAmountErrors
    /\ (/\ TheOne(gwOp) \in {"stake", "redeem"}
        /\ txOptionsFromValid(argTxOptions(TheOne(gwArgs)))) =>
         gwResult \subseteq InvalidAmountErrors
    /\ (/\ TheOne(gwOp) \in {"stake", "redeem"}
        /\ ~txOptionsFromValid(argTxOptions(TheOne(gwArgs)))) =>
         gwResult \cap InvalidAmountErrors = {}

C11_Witness ==
  /\ gwOp = {"redeem"}
  /\ gwPc = "done"
  /\ argAmount(TheOne(gwArgs)) = 0
  /\ argBeneficiaryValid(TheOne(gwArgs))
  /\ txOptionsFromValid(argTxOptions(TheOne(gwArgs)))
  /\ gwResult = {"Redeem amount must be greater than zero"}
  /\ NoNetworkCall

\* The write operations, each taking txOptions as its last argument.
WriteOps ==
  {"stake", "redeem"} \cup ProgressMethods \cup OtherWriteOps \cup ApproveOps
TxOptionsErrors ==
  {"Invalid transaction options", "Invalid facilitator address",
   "Invalid redeemer address", "Invalid from address"}
callTxOptions(args) == args[Len(args)]
InvalidTxOptionsCall ==
  /\ gwOp # {}
  /\ TheOne(gwOp) \in WriteOps
  /\ ~txOptionsFromValid(callTxOptions(TheOne(gwArgs)))

\* C12: a write operation called with txOptions missing, or with a from that
\* is missing or no address, rejects with the txOptions error before the raw
\* transaction is built and before any network call, whatever the other
\* arguments are.
C12_TxOptionsCheckedFirst ==
  InvalidTxOptionsCall =>
    /\ gwPc = "done"
    /\ gwResult # {}
    /\ gwResult \subseteq TxOptionsErrors
    /\ NoNetworkCall

C12_Witness ==
  /\ gwOp = {"progressRedeem"}
  /\ gwPc = "done"
  /\ txOptionsDefined(callTxOptions(TheOne(gwArgs)))
  /\ ~txOptionsFromValid(callTxOptions(TheOne(gwArgs)))
  /\ isString(argMessageHash(TheOne(gwArgs)))
  /\ isString(argUnlockSecret(TheOne(gwArgs)))
  /\ gwResult = {"Invalid from address"}
  /\ NoNetworkCall

ProgressRawTxOps == {RawTxOf(method) : method \in ProgressMethods}
MethodOfRawTx(op) == CHOOSE method \in ProgressMethods : RawTxOf(method) = op
ProgressRawTxCalled == gwOp # {} /\ TheOne(gwOp) \in ProgressRawTxOps

\* C13: progressRedeemRawTx (and progressStakeRawTx, progressMintRawTx,
\* progressUnstakeRawTx) rejects when messageHash or unlockSecret is not
\* supplied, without invoking the contract method; with both supplied it
\* invokes the contract method exactly once with exactly (messageHash,
\* unlockSecret) and resolves to the object that method returned.
C13_ProgressRawTx ==
  ProgressRawTxCalled =>
    LET a == TheOne(gwArgs)
        method == MethodOfRawTx(TheOne(gwOp))
    IN /\ gwPc = "done"
       /\ gwSent = <<>>
       /\ gwEstimates = 0
       /\ ~isString(argMessageHash(a)) =>
            gwResult = {"Invalid message hash"} /\ gwBuilt = 0 /\ gwTx = {}
       /\ (isString(argMessageHash(a)) /\ ~isString(argUnlockSecret(a))) =>
            gwResult = {"Invalid unlock secret"} /\ gwBuilt = 0 /\ gwTx = {}
       /\ (isString(argMessageHash(a)) /\ isString(argUnlockSecret(a))) =>
            /\ gwResult = {"raw transaction"}
            /\ gwBuilt = 1
            /\ gwTx = {<<method, <<argMessageHash(a), argUnlockSecret(a)>>>>}

C13_Witness ==
  /\ gwOp = {"progressRedeemRawTx"}
  /\ gwPc = "done"
  /\ gwArgs = {<<Undefined, "0x..02">>}
  /\ gwResult = {"Invalid message hash"}
  /\ gwBuilt = 0

\* C14: every failure of the chain client during a write operation (a failing
\* gas estimation, an error of the send) reaches the caller as a rejection:
\* once Utils.sendTransaction has a chain call in flight, its result
\* eventually settles, with the receipt or with the error.
C14_SendTransactionSettles ==
  (gwPc \in {"estimating", "sending"}) ~> (gwResult # {})

\* C15: getNonce called with an invalid account address fails as a rejected
\* asynchronous result, never as an exception out of the call, and issues
\* no contract call, on EIP20Gateway and on EIP20CoGateway alike.
C15_GetNonceRejectsInvalidAddress ==
  \A i \in 1 .. Len(rdCalls) :
    (callOp(rdCalls[i]) = "getNonce" /\ ~isAddress(callArg(rdCalls[i]))) =>
      /\ callState(rdCalls[i]) = "rejected"
      /\ ~callQueried(rdCalls[i])

\* The write operations that end in Utils.sendTransaction.
SendingOps == {"stake", "redeem"} \cup ProgressMethods \cup OtherWriteOps
\* The method object a call's arguments determine.
ExpectedTx(op, args) ==
  IF op \in {"stake", "redeem"} THEN <<op, SubSeq(args, 1, 6)>>
  ELSE IF op \in ProgressMethods THEN <<op, <<args[1], args[2]>>>>
  ELSE <<op, <<>>>>
\* The gas of the options sent: the caller's, or the estimate when the
\* caller gave none.
ExpectedGas(txOptions) ==
  IF txOptionsGas(txOptions) = {} THEN {"estimated"} ELSE txOptionsGas(txOptions)

CallsOf(op) == {i \in 1 .. Len(rdCalls) : callOp(rdCalls[i]) = op}
QueriesOf(op) == {i \in CallsOf(op) : callQueried(rdCalls[i])}
SuccessfulReadsOf(op) ==
  {i \in QueriesOf(op) : callState(rdCalls[i]) = "resolved"}
\* A call was made in this step.
CallMade == Len(rdCalls') = Len(rdCalls) + 1
NewCall == rdCalls'[Len(rdCalls')]

\* C17 (as stated): over any sequence of repeated calls of one getter the
\* chain is queried at most once.
C17_ChainQueriedAtMostOnce ==
  \A getter \in AllGetters : Cardinality(QueriesOf(getter)) <= 1

\* C17 (amended): once a call of a getter has read the value from the chain,
\* every later call of that getter returns the identical value without a
\* chain query; only calls made before the first successful read has
\* returned query the chain.
C17_CacheHitAfterFirstRead ==
  /\ [](\A getter \in AllGetters :
         /\ \A i \in CallsOf(getter) :
              callState(rdCalls[i]) = "resolved" =>
                callResult(rdCalls[i]) = ChainValue(getter)
         /\ (\E i \in CallsOf(getter) : ~callQueried(rdCalls[i])) =>
              SuccessfulReadsOf(getter) # {})
  /\ [][\A getter \in AllGetters :
         (CallMade /\ callOp(NewCall) = getter) =>
           IF SuccessfulReadsOf(getter) # {}
             THEN /\ ~callQueried(NewCall)
                  /\ callState(NewCall) = "resolved"
                  /\ callResult(NewCall) = ChainValue(getter)
             ELSE callQueried(NewCall) /\ callState(NewCall) = "pending"]_vars

C17_Witness ==
  /\ Len(rdCalls) = 2
  /\ rdCalls[1] = Call("getBounty", "", "resolved", TRUE, ChainValue("getBounty"))
  /\ rdCalls[2] = Call("getBounty", "", "resolved", FALSE, ChainValue("getBounty"))

\* C18 (as stated): under every interleaving each cache field is written
\* at most once.
C18_CacheWrittenAtMostOnce ==
  \A getter \in AllGetters : rdWrites[getter] <= 1

\* C18 (amended): under every interleaving a cache field is assigned only
\* by a successful read, once by each (overlapping first reads each assign
\* it); a failed read leaves it unset; once set it never changes and equals
\* the on-chain value.
C18_CacheSetOnceToChainValue ==
  /\ [](\A getter \in AllGetters :
         /\ rdWrites[getter] = Cardinality(SuccessfulReadsOf(getter))
         /\ rdCache[getter] = IF SuccessfulReadsOf(getter) = {} THEN {}
                              ELSE {ChainValue(getter)})
  /\ [][\A getter \in AllGetters :
         rdCache[getter] # {} => rdCache'[getter] = rdCache[getter]]_vars

C18_Witness ==
  /\ rdWrites["getBounty"] = 2
  /\ rdCache["getBounty"] = {ChainValue("getBounty")}
  /\ \A i \in 1 .. Len(rdCalls) : callQueried(rdCalls[i])

StatusCalls == {i \in 1 .. Len(rdCalls) : callOp(rdCalls[i]) \in StatusOps}

\* C19: getOutboxMessageStatus and getInboxMessageStatus are never cached:
\* every call with a message hash issues one chain query and resolves to the
\* status the chain holds when it answers, so a change on chain between two
\* calls is seen by the second; the calls assign no field of the instance.
C19_StatusNeverCached ==
  /\ [](\A i \in StatusCalls :
         isString(callArg(rdCalls[i])) <=> callQueried(rdCalls[i]))
  /\ [][\A i \in StatusCalls :
         /\ (callState(rdCalls[i]) = "pending" /\ callState(rdCalls'[i]) = "resolved") =>
              /\ callResult(rdCalls'[i]) = rdStatus[BoxOf(callOp(rdCalls[i]))]
              /\ rdCache' = rdCache
              /\ rdWrites' = rdWrites
         /\ (CallMade /\ callOp(NewCall) \in StatusOps) =>
              rdCache' = rdCache /\ rdWrites' = rdWrites]_vars

C19_Witness ==
  /\ Len(rdCalls) = 2
  /\ rdCalls[1] = Call("getOutboxMessageStatus", WellFormedHash, "resolved", TRUE,
                       "Undeclared")
  /\ rdCalls[2] = Call("getOutboxMessageStatus", WellFormedHash, "resolved", TRUE,
                       "Declared")

\* C20: the message-status queries accept only a well-formed 32-byte hex
\* messageHash: for any other argument (missing, of another type, or a
\* string that is no 32-byte hex identifier) they reject with the
\* invalid-argument error and issue no chain query.
C20_OnlyWellFormedHashQueried ==
  \A i \in StatusCalls :
    callArg(rdCalls[i]) # WellFormedHash =>
      /\ callState(rdCalls[i]) = "rejected"
      /\ callResult(rdCalls[i]) = "Invalid message hash"
      /\ ~callQueried(rdCalls[i])

\* C22: in the redeem flow the declaration on the auxiliary chain carries the
\* CoGateway's bounty as its transaction value; the stake flow attaches no
\* transaction value to its declaration, and no progression carries one.
C22_BountyAsValueOnRedeemOnly ==
  /\ \A i \in 1 .. Len(calls) :
       calls[i].value = IF calls[i].op = "Facilitator.redeem" THEN {bounty} ELSE {}
  /\ \A i \in 1 .. Len(txLog) :
       txLog[i].value = IF txLog[i].op = "CoGateway.redeem" THEN {bounty} ELSE {}
  /\ kind = "stake" => \A i \in 1 .. Len(txLog) : txLog[i].op = "Gateway.stake"
  /\ kind = "redeem" => \A i \in 1 .. Len(txLog) : txLog[i].op = "CoGateway.redeem"

C22_Witness ==
  /\ kind = "redeem"
  /\ bounty = MaxBounty
  /\ Len(txLog) = 1
  /\ txLog[1].op = "CoGateway.redeem"
  /\ txLog[1].value = {MaxBounty}
  /\ pc = "done"

\* The answers of a query that settled with the token's answer.
ApprovalAnswers == {"true", "false"}
BountyApprovalCalled == apCall # {} /\ apOp = "isBountyAmountApproved"

\* C23: isBountyAmountApproved(facilitator) with a valid address resolves to
\* exactly what the base token's isAmountApproved(facilitator, gateway address,
\* bounty) answers, having asked for the base-token contract once, the bounty
\* once and the token once; with an invalid address it rejects and neither
\* the bounty nor the base token is read.
C23_BountyApprovalIsTokensAnswer ==
  BountyApprovalCalled =>
    /\ ~isAddress(apAddress) =>
         /\ apPc = "done"
         /\ apResult = {"Invalid facilitator address"}
         /\ \A callee \in ApprovalCallees : apCalls[callee] = 0
         /\ apAsked = <<>>
    /\ isAddress(apAddress) =>
         /\ apCalls["getBaseTokenContract"] = 1
         /\ apCalls["getValueTokenContract"] = 0
         /\ apCalls["getBounty"] <= 1
         /\ apCalls["isAmountApproved"] = Len(apAsked)
         /\ Len(apAsked) <= apCalls["getBounty"]
         /\ \A i \in 1 .. Len(apAsked) :
              apAsked[i] = <<apAddress, GatewayAddress, bounty>>
         /\ apResult \cap ApprovalAnswers # {} =>
              /\ apCalls["getBounty"] = 1
              /\ Len(apAsked) = 1
              /\ apResult = {IF bountyApproved THEN "true" ELSE "false"}

C23_Witness ==
  /\ BountyApprovalCalled
  /\ isAddress(apAddress)
  /\ apPc = "done"
  /\ bounty = MaxBounty
  /\ bountyApproved
  /\ ~stakeApproved
  /\ apResult = {"true"}
  /\ apAsked = << <<apAddress, GatewayAddress, MaxBounty>> >>

\* C24: toHashLock is a function of the secret (equal secrets give equal
\* results); the result's secret is the input as given, its unlockSecret is
\* the hash of the secret and its hashLock the hash of that hash; what
\* createSecretHashLock returns has the same shape for the secret it drew.
C24_HashLockOfSecret ==
  /\ \A i \in 1 .. Len(hlCalls) :
       /\ hlCalls[i][2].secret = hlCalls[i][1]
       /\ hlCalls[i][2].unlockSecret = keccak256(hlCalls[i][1])
       /\ hlCalls[i][2].hashLock = keccak256(keccak256(hlCalls[i][1]))
       /\ \A j \in 1 .. Len(hlCalls) :
            hlCalls[i][1] = hlCalls[j][1] => hlCalls[i][2] = hlCalls[j][2]
  /\ \A i \in 1 .. Len(hlGenerated) :
       /\ hlGenerated[i].secret \in Secrets
       /\ hlGenerated[i].unlockSecret = keccak256(hlGenerated[i].secret)
       /\ hlGenerated[i].hashLock = keccak256(hlGenerated[i].unlockSecret)
       /\ \A j \in 1 .. Len(hlCalls) :
            hlCalls[j][1] = hlGenerated[i].secret => hlCalls[j][2] = hlGenerated[i]

C24_Witness ==
  /\ Len(hlCalls) >= 2
  /\ hlCalls[1][1] = hlCalls[2][1]
  /\ hlCalls[1][2].hashLock # hlCalls[1][2].unlockSecret
  /\ hlCalls[1][2].unlockSecret # hlCalls[1][1]
  /\ \E i \in 1 .. Len(hlGenerated) : hlGenerated[i] = hlCalls[1][2]
  /\ \E i \in 1 .. Len(hlGenerated) : hlGenerated[i].secret # hlCalls[1][1]

\* A write operation reached Utils.sendTransaction.
SendTransactionCalled ==
  gwOp # {} /\ TheOne(gwOp) \in SendingOps /\ gwTxOptions # {}

\* C26: Utils.sendTransaction calls estimateGas once, before the send, exactly
\* when the caller's options carry no gas, and not at all when they carry
\* one; the options sent are the caller's with, only in the first case, the
\* estimated gas added; the caller's own options object stays as it was given.
C26_GasEstimatedWhenOmitted ==
  /\ gwCallerOptions # {} => gwCallerOptions = {callTxOptions(TheOne(gwArgs))}
  /\ ~SendTransactionCalled => (gwEstimates = 0 /\ gwSent = <<>>)
  /\ SendTransactionCalled =>
       LET given == TheOne(gwCallerOptions)
           copy == TheOne(gwTxOptions)
       IN /\ gwEstimates = (IF txOptionsGas(given) = {} THEN 1 ELSE 0)
          /\ gwPc = "estimating" => (copy = given /\ gwSent = <<>>)
          /\ gwPc = "hung" => (copy = given /\ gwSent = <<>>)
          /\ gwSent # <<>> =>
               /\ copy = (IF txOptionsGas(given) = {}
                            THEN withGas(given, {"estimated"}) ELSE given)
               /\ \A i \in 1 .. Len(gwSent) : gwSent[i][2] = txOptionsGas(copy)

C26_Witness ==
  /\ SendTransactionCalled
  /\ gwPc = "done"
  /\ gwResult = {"receipt"}
  /\ gwEstimates = 1
  /\ txOptionsGas(TheOne(gwCallerOptions)) = {}
  /\ txOptionsGas(TheOne(gwTxOptions)) = {"estimated"}
  /\ Len(gwSent) = 1

C26_WitnessGasGiven ==
  /\ SendTransactionCalled
  /\ gwPc = "done"
  /\ gwEstimates = 0
  /\ txOptionsGas(TheOne(gwCallerOptions)) = {"7500000"}
  /\ gwSent[1][2] = {"7500000"}

\* The height query of the running wait fails in this step.
PollFails == waitPc = "polling" /\ waitPc' \notin {"polling", "sleeping", "resolved"}

\* C27: when the anchor's height query fails, at the first poll or after any
\* number of sleeps, the wait rejects and the flow with it; after that there
\* is no poll and no sleep, and no progression is called or submitted.
C27_FailedPollRejectsFlow ==
  /\ [](waitPc \in {"idle", "polling", "sleeping", "resolved", "rejected"})
  /\ [](waitPc = "rejected" =>
          /\ pc = "done"
          /\ flowResult = "rejected"
          /\ \A i \in 1 .. Len(calls) : calls[i].op \notin ProgressOps
          /\ Len(txLog) = 1)
  /\ [][/\ PollFails => (waitPc' = "rejected" /\ flowResult' = "rejected")
        /\ waitPc = "rejected" =>
             /\ waitPc' = "rejected"
             /\ lastObserved' = lastObserved
             /\ calls' = calls
             /\ txLog' = txLog
             /\ flowResult' = flowResult]_vars

\* The query failed after an earlier poll had answered and the wait slept.
C27_Witness ==
  /\ waitPc = "rejected"
  /\ lastObserved # {}
  /\ kind = "redeem"
  /\ flowResult = "rejected"

\* The status read was Declared and the message has left Declared while the
\* progression is on its way to the chain.
ProgressRaced ==
  /\ statusRead = {"Declared"}
  /\ pprPc \in {"estimating", "sending"}
  /\ outboxStatus # "Declared"

\* C28: when the outbox status leaves Declared after the check read Declared
\* and before the progression is mined, the progression transaction is still
\* submitted, exactly once, and the call settles with the chain's rejection:
\* it neither stays pending nor reports success.
C28_RaceSurfacesAsRejection ==
  /\ [](Len(sent) <= 1)
  /\ ProgressRaced ~>
       (pprPc = "done" /\ Len(sent) = 1 /\ pprResult = {"TransactionReverted"})

\* The part of C28 that holds: with gas in the options the raced progression
\* is sent once and its rejection is the result of the call.
C28_RacedWithGas ==
  (statusRead = {"Declared"} /\ TheOne(pprArgs).txOptions.gas
     /\ progressRedeemRejects(TheOne(pprArgs)) = {}
     /\ outboxStatus \notin {"Declared", "Progressed"}) =>
    /\ Len(sent) = 1
    /\ pprPc \in {"sending", "done"}
    /\ pprPc = "done" => pprResult = {"TransactionReverted"}

C28_WitnessRacedWithGas ==
  /\ statusRead = {"Declared"}
  /\ TheOne(pprArgs).txOptions.gas
  /\ outboxStatus = "DeclaredRevocation"
  /\ pprResult = {"TransactionReverted"}

\* C25: nothing orders the nonce reads of two stake flows of one staker, so
\* both declarations can carry the same nonce; then at most one of them is
\* accepted, the staker's nonce grows by one per accepted declaration, and a
\* declaration that is not accepted settles its flow with TransactionReverted
\* after being submitted once, never again.
C25_SameNonceOneAccepted ==
  /\ tsChainNonce = tsInitialNonce + Cardinality(tsAccepted)
  /\ \A f \in StakeFlows :
       /\ Cardinality(SentBy(f)) <= 1
       /\ \A i \in SentBy(f) : tsStakeNonce[f] = {tsSent[i][2]}
       /\ f \in tsAccepted <=> tsResult[f] = {"receipt"}
       /\ (tsPc[f] = "rejected" /\ SentBy(f) # {}) =>
            tsResult[f] = {"TransactionReverted"}
       /\ tsPc[f] \in {"wait", "rejected"} <=> tsResult[f] # {}
  /\ \A f \in StakeFlows : \A g \in StakeFlows \ {f} :
       (tsStakeNonce[f] # {} /\ tsStakeNonce[f] = tsStakeNonce[g]) =>
         /\ ~(f \in tsAccepted /\ g \in tsAccepted)
         /\ (f \in tsAccepted /\ tsResult[g] # {}) =>
              tsResult[g] = {"TransactionReverted"}

\* Both flows read the nonce before either declaration was mined.
C25_Witness ==
  /\ tsStakeNonce[1] # {}
  /\ tsStakeNonce[1] = tsStakeNonce[2]
  /\ tsNonce[1] = tsNonce[2]
  /\ Len(tsSent) = 2
  /\ tsAccepted = {2}
  /\ tsResult[1] = {"TransactionReverted"}
  /\ tsChainNonce = tsInitialNonce + 1

\* The submissions that have not settled.
PendingSubmissions ==
  {i \in 1 .. Len(awSubmissions) : submissionOutcome(awSubmissions[i]) = "pending"}

\* C30: the worker's submissions alternate, the first on the origin anchor
\* with the auxiliary chain's block, the next on the auxiliary anchor with the
\* origin chain's block, and so on; at most one is in flight; a submission
\* is made only after all earlier ones succeeded, and after a failed one the
\* worker makes no further submission.
C30_WorkerAlternates ==
  /\ [](/\ \A i \in 1 .. Len(awSubmissions) :
             /\ submissionAnchor(awSubmissions[i]) =
                  (IF i % 2 = 1 THEN "origin" ELSE "auxiliary")
             /\ submissionChain(awSubmissions[i]) =
                  OtherChain(submissionAnchor(awSubmissions[i]))
             /\ i < Len(awSubmissions) =>
                  submissionOutcome(awSubmissions[i]) = "receipt"
        /\ Cardinality(PendingSubmissions) <= 1
        /\ PendingSubmissions # {} <=> awPc \in {"anchorOrigin", "anchorAuxiliary"}
        /\ (\E i \in 1 .. Len(awSubmissions) :
              submissionOutcome(awSubmissions[i]) = "failed") => awPc = "failed")
  /\ [][/\ awPc = "failed" => (awPc' = "failed" /\ awSubmissions' = awSubmissions)
        /\ Len(awSubmissions') > Len(awSubmissions) =>
             /\ Len(awSubmissions') = Len(awSubmissions) + 1
             /\ PendingSubmissions = {}
             /\ submissionBlock(awSubmissions'[Len(awSubmissions')]) =
                  awLatest[submissionChain(awSubmissions'[Len(awSubmissions')])]]_vars

\* Three submissions in turn, the third one failed.
C30_Witness ==
  /\ Len(awSubmissions) = 3
  /\ submissionAnchor(awSubmissions[1]) = "origin"
  /\ submissionAnchor(awSubmissions[2]) = "auxiliary"
  /\ submissionAnchor(awSubmissions[3]) = "origin"
  /\ submissionOutcome(awSubmissions[3]) = "failed"
  /\ awPc = "failed"

\* The methods of the transactions setupPair sends, in their order.
SetupOrder == <<"deployGateway", "deployCoGateway", "activateGateway">>
\* The call of setupPair has ended or will not go on.
SetupStopped == spStep \in {"done", "failed", "hung", "thrown"}

\* C29: setupPair sends nothing unless both configurations have their keys;
\* its transactions are, in this order, the Gateway's deployment, the
\* CoGateway's deployment with the deployed Gateway's address, and the
\* activation from organizationOwner with the deployed CoGateway's address,
\* each sent only after the one before has its receipt; the pair is returned
\* only after the activation's receipt; after a failed step nothing is sent.
C29_SetupPairOrder ==
  /\ [](/\ Len(spTxs) <= 3
        /\ \A i \in 1 .. Len(spTxs) : spTxs[i][1] = SetupOrder[i]
        /\ spTxs # <<>> =>
             /\ gatewayConfigComplete(TheOne(spInput))
             /\ coGatewayConfigComplete(TheOne(spInput))
             /\ spTxs[1][2] = "gatewayConfig.deployer"
        /\ Len(spTxs) <= spPhase
        /\ spPhase >= 2 <=> spGatewayAddress # {}
        /\ spPhase >= 3 <=> spCoGatewayAddress # {}
        /\ Len(spTxs) >= 2 => spTxs[2][3] = TheOne(spGatewayAddress)
        /\ Len(spTxs) >= 3 =>
             /\ spTxs[3][2] = "gatewayConfig.organizationOwner"
             /\ spTxs[3][3] = TheOne(spCoGatewayAddress)
        /\ spResult = {"pair"} <=> (spStep = "done" /\ spPhase = 3)
        /\ spStep = "done" => Len(spTxs) = 3
        /\ spStep = "thrown" => spTxs = <<>>)
  /\ [][/\ SetupStopped => UNCHANGED spVars
        /\ spPhase' # spPhase =>
             /\ spPhase' = spPhase + 1
             /\ (spPhase = 0 \/ (spStep = "sending" /\ Len(spTxs) = spPhase))
        /\ Len(spTxs') > Len(spTxs) =>
             /\ Len(spTxs') = Len(spTxs) + 1
             /\ spStep' = "sending"]_vars

C29_Witness ==
  /\ spStep = "done"
  /\ spResult = {"pair"}
  /\ Len(spTxs) = 3
  /\ spTxs[2][3] = "0x..a2"
  /\ spTxs[3][3] = "0x..b1"

\* The CoGateway's deployment failed after the Gateway's succeeded.
C29_WitnessFailedStep ==
  /\ spStep = "failed"
  /\ spPhase = 2
  /\ Len(spTxs) = 2
  /\ spResult = {"TransactionReverted"}

ArgsValid(a) ==
  /\ a.messageHash # Undefined
  /\ a.unlockSecret # Undefined
  /\ a.txOptions.defined

\* C2: with valid arguments, an outbox status of Undeclared,
\* DeclaredRevocation or Revoked makes performProgressRedeem reject with
\* MessageNotProgressable without any call of progressRedeem; on Declared
\* progressRedeem is called exactly once, with the same three arguments, and
\* its result is the result of performProgressRedeem.
C2_ProgressRedeemPolicy ==
  (statusRead # {} /\ ArgsValid(TheOne(pprArgs))) =>
    LET status == TheOne(statusRead)
    IN /\ status \in {"Undeclared", "DeclaredRevocation", "Revoked"} =>
            /\ progressRedeemCalls = <<>>
            /\ pprResult = {"MessageNotProgressable"}
       /\ status = "Declared" =>
            /\ Len(progressRedeemCalls) = 1
            /\ progressRedeemCalls[1] = TheOne(pprArgs)
            /\ pprResult = progressRedeemResult
            /\ pprPc = "done" => pprResult # {}

C2_Witness ==
  /\ pprPc = "done"
  /\ statusRead = {"Declared"}
  /\ Len(progressRedeemCalls) = 1
  /\ pprResult = {"receipt"}

\* C3: whatever the status, a progression transaction is sent only when the
\* status read is Declared (never for a Progressed message); the status is
\* queried exactly once, and the query has returned before anything is sent.
C3_StatusReadOnceBeforeSend ==
  /\ statusQueries <= 1
  /\ sent # <<>> => (statusQueries = 1 /\ statusRead = {"Declared"})
  /\ (statusRead # {} /\ statusRead # {"Declared"}) =>
       (sent = <<>> /\ progressRedeemCalls = <<>>)
  /\ (pprPc = "done" /\ ArgsValid(TheOne(pprArgs))) => statusQueries = 1
  /\ Len(sent) <= 1

C3_Witness ==
  /\ pprPc = "done"
  /\ statusRead = {"Progressed"}
  /\ statusQueries = 1
  /\ sent = <<>>

====
